---- MODULE Spec2Model ----
(***************************************************************************)
(* The authenticated request pipeline of the KRA eTIMS OSCU SDK:           *)
(* TokenCacheManager (utils/cache), AuthOClient (services/AuthOClient) and *)
(* BaseOClient (services/BaseOClient).  One caller drives the client: it   *)
(* calls send, or getToken / clearToken of the AuthOClient directly, and   *)
(* the remote side answers every authorization call and every dispatch     *)
(* with an outcome drawn from a small set.                                 *)
(*                                                                         *)
(* Optional values (undefined in the source) are sequences of length 0 or  *)
(* 1: None is <<>>, Some(x) is <<x>>.  A result code is the sequence of    *)
(* its decimal digits, so that the string comparisons of unwrap can be     *)
(* computed as JavaScript computes them.                                   *)
(***************************************************************************)
EXTENDS Integers, Sequences, FiniteSets, TLC

VARIABLES
  cfg,          \* OscuConfig handed to both clients at construction
  cache,        \* the token cache file: NoFile or a TokenCache record
  now,          \* the clock (Date.now()), in ticks of 1/TicksPerSec second
  pc,           \* position of the caller inside the running operation
  op,           \* the running operation: "send", "getToken", "clearToken"
  method,       \* send's argument: "GET" or "POST"
  key,          \* send's argument: the endpoint key
  data,         \* send's argument: the payload
  force,        \* getToken's argument forceRefresh (direct call)
  endpoint,     \* send's local constant endpoint
  headers,      \* request's local constant headers
  response,     \* send's local variable response
  remote,       \* history: what the remote answered to the last dispatch
  outcome,      \* what the operation returned or threw
  exit,         \* history: the statement the operation ended in
  sent,         \* the business requests handed to axios by this call, in order
  authCalls,    \* authorization calls (axios.get of fetchToken) made by this operation
  firstSignal,  \* history: the first response of this call was a token-expiry signal
  cacheTouched, \* history: this operation wrote or removed the cache file
  recorded,     \* history: the cache file holds an entry written by getToken
  authReply,    \* history: the last answer of the authorization endpoint in this operation
  log,          \* history: the cache and network events of this operation, in order
  found,        \* history: what the last getToken of this operation found in the cache file
  apiMethod,    \* the EtimsOClient endpoint method running, "" when send was called itself
  input,        \* the endpoint method's argument data
  schemaName,   \* validate's argument schemaName
  sinceClear,   \* history: "cleared" once clearToken removed the file, "refetched" once
                \* the operation running wrote it again, "none" otherwise
  callers,      \* SpecConcurrent: the position and the locals of every concurrent getToken(true)
  fileBytes,    \* SpecConcurrent, SpecCache: the characters of the cache file
  authSent,     \* the authorization requests handed to axios by this operation, in order
  client,       \* the client class the caller holds: "EtimsOClient" or "EtimsClient"
  written       \* SpecCache: the argument of the last write, None before it

vars == <<cfg, cache, now, pc, op, method, key, data, force, endpoint, headers,
          response, remote, outcome, exit, sent, authCalls, firstSignal, cacheTouched,
          recorded, authReply, log, found, apiMethod, input, schemaName, sinceClear,
          callers, fileBytes, authSent, client, written>>

(***************************************************************************)
(* Bounds of the model.                                                    *)
(***************************************************************************)
\* The clock advances from 0 to MaxNow ticks.
MaxNow == 3
\* Clock ticks per second: the model's stand-in for the 1000 ms of Date.now().
TicksPerSec == 2

\* The callers that run getToken(true) at the same time.
NumCallers == 2

(***************************************************************************)
(* Program constants.                                                      *)
(***************************************************************************)
\* AuthOClient.getToken: the safety buffer subtracted from the lifetime.
BufferSeconds == 60
\* AuthOClient.getToken: the lifetime used when expires_in is missing.
DefaultExpiresIn == 3600

None == <<>>
Some(x) == <<x>>
IsSome(o) == Len(o) = 1
Get(o) == o[1]

(***************************************************************************)
(* Strings as digit sequences, compared as JavaScript compares strings:    *)
(* code unit by code unit, a proper prefix being smaller.                  *)
(***************************************************************************)
RECURSIVE StrLess(_, _)
StrLess(a, b) ==
  IF b = <<>> THEN FALSE
  ELSE IF a = <<>> THEN TRUE
  ELSE IF a[1] # b[1] THEN a[1] < b[1]
  ELSE StrLess(Tail(a), Tail(b))

StrGE(a, b) == ~StrLess(a, b)
StrLE(a, b) == ~StrLess(b, a)

\* The number a digit string denotes.
RECURSIVE NumVal(_)
NumVal(s) == IF s = <<>> THEN 0 ELSE 10 * NumVal(SubSeq(s, 1, Len(s) - 1)) + s[Len(s)]

(***************************************************************************)
(* JavaScript values of a payload.  A payload object is the sequence of    *)
(* its properties in insertion order; a string is the sequence of its      *)
(* characters; a number is an integer.                                     *)
(***************************************************************************)
VStr(s) == [t |-> "string", s |-> s, n |-> 0, c |-> <<>>]
VNum(n) == [t |-> "number", s |-> <<>>, n |-> n, c |-> <<>>]
VNull == [t |-> "null", s |-> <<>>, n |-> 0, c |-> <<>>]
\* An object value, of its properties, and an array value, of its items.
VObj(props) == [t |-> "object", s |-> <<>>, n |-> 0, c |-> props]
VArr(items) == [t |-> "array", s |-> <<>>, n |-> 0, c |-> items]
Prop(k, v) == [k |-> k, v |-> v]
EmptyObject == <<>>
Keys(p) == { p[i].k : i \in 1..Len(p) }
ValueOf(p, k) == p[CHOOSE i \in 1..Len(p) : p[i].k = k].v

Chars(c, n) == [i \in 1..n |-> c]

(***************************************************************************)
(* Input domains.                                                          *)
(***************************************************************************)
\* Result codes the remote may send in resultCd (digit strings; "" is <<>>).
Codes == { <<>>, <<0,0,0>>, <<0,0,1>>, <<0,0,2>>, <<8,9,0>>, <<8,9,1>>, <<8,9,9>>,
           <<9,0,0>>, <<9,9,9>>, <<9,5>>, <<1,0,0,0>>, <<8,9,1,0>> }
ResultMsgs == { "Invalid item code" }
\* faultstring values of the gateway's fault envelope.
FaultStrings == { "Access Token expired", "Invalid Token", "Runtime Error" }
\* Access tokens the authorization endpoint may issue.
Tokens == { "tokA", "tokB" }
\* Lifetimes (seconds) the authorization endpoint may report in expires_in.
Lifetimes == { 60, 61 }
HttpStatuses == { 200, 299, 300, 401, 500 }
\* Endpoint keys that start with "/".
PathLikeKeys == { "/saveItem" }
\* The payloads the caller hands to send and to the endpoint methods.
Payload1 == << Prop("itemCd", VStr(Chars("A", 3))) >>
InitPayload ==
  << Prop("tin", VStr(Chars("P", 11))), Prop("bhfId", VStr(Chars("0", 2))),
     Prop("dvcSrlNo", VStr(Chars("D", 8))) >>
\* dvcSrlNo is missing and extra is not declared.
InitPayloadBad ==
  << Prop("tin", VStr(Chars("P", 11))), Prop("bhfId", VStr(Chars("0", 2))),
     Prop("extra", VStr(Chars("x", 1))) >>
LastReqPayloadBad == << Prop("lastReqDt", VStr(Chars("2", 13))) >>
\* The calls of endpoint methods the caller makes.
MethodCall(m, d) == [name |-> m, data |-> d]
MethodCalls ==
  { MethodCall("selectInitOsdcInfo", InitPayload),
    MethodCall("selectInitOsdcInfo", InitPayloadBad),
    MethodCall("selectCodeList", LastReqPayloadBad) }
\* The calls of send the caller makes: method, endpoint key, payload.
SendCall(m, k, d) == [method |-> m, key |-> k, data |-> d]
SendCalls ==
  { SendCall("POST", "saveItem", Payload1),
    SendCall("GET", "saveItem", Payload1),
    SendCall("POST", "notAnEndpoint", Payload1),
    SendCall("GET", "/saveItem", Payload1),
    SendCall("POST", "constructor", Payload1) }

(***************************************************************************)
(* Exceptions and results.                                                 *)
(***************************************************************************)
\* A template-string message: its fixed text, the values interpolated.
Msg(tag, status, code, text) ==
  [tag |-> tag, status |-> status, code |-> code, text |-> text]
PlainMsg(tag) == Msg(tag, 0, None, None)

Result(kind, statusCode, errorCode, message, details, value, token) ==
  [kind |-> kind, statusCode |-> statusCode, errorCode |-> errorCode,
   message |-> message, details |-> details, value |-> value, token |-> token,
   errors |-> <<>>]

Pending == Result("pending", 0, None, PlainMsg(""), None, None, None)
\* new ApiException(message, statusCode = 400, errorCode?, details?)
ApiException(message, statusCode, errorCode, details) ==
  Result("ApiException", statusCode, errorCode, message, details, None, None)
\* new AuthenticationException(message, statusCode = 401, errorCode?)
AuthenticationException(message, statusCode) ==
  Result("AuthenticationException", statusCode, None, message, None, None, None)
\* Errors of the runtime itself, thrown by JSON.parse and by a call of a
\* method the value does not have.
SyntaxError == Result("SyntaxError", 0, None, PlainMsg("Unexpected token"), None, None, None)
TypeError == Result("TypeError", 0, None, PlainMsg("is not a function"), None, None, None)
ReturnJson(json) == Result("return", 0, None, PlainMsg(""), None, Some(json), None)
ReturnToken(t) == Result("return", 0, None, PlainMsg(""), None, None, Some(t))
ReturnVoid == Result("return", 0, None, PlainMsg(""), None, None, None)

(***************************************************************************)
(* TokenCacheManager.                                                      *)
(***************************************************************************)
TokenCache(t, e) == [access_token |-> t, expires_at |-> e]
NoFile == [kind |-> "absent", entry |-> TokenCache("", 0)]
CorruptFile == [kind |-> "corrupt", entry |-> TokenCache("", 0)]
JsonFile(entry) == [kind |-> "json", entry |-> entry]

\* read(): the entry, or null on a missing or unparsable file.
CacheRead(file) == IF file.kind = "json" THEN Some(file.entry) ELSE None
\* write(token): the file after it.
CacheWrite(file, entry) == JsonFile(entry)
\* Mutant: clear leaves the file in place.
CacheClear_Keeps(file) == file
\* clear(): the file after it.
CacheClear(file) == NoFile

(***************************************************************************)
(* The authorization endpoint, as fetchToken's axios.get sees it.          *)
(***************************************************************************)
TokenBody(t, life, code, text) ==
  [access_token |-> t, expires_in |-> life, errorCode |-> code, errorMessage |-> text]
\* kind "response": an HTTP response with a JSON body; kind "network": none.
TokenReply(kind, status, body) == [kind |-> kind, status |-> status, body |-> body]

TokenOutcomes ==
     { TokenReply("response", 200, TokenBody(Some(t), l, None, None)) :
         t \in Tokens, l \in {Some(x) : x \in Lifetimes} \cup {None} }
  \cup { TokenReply("response", 200, TokenBody(None, None, None, None)) }
  \cup { TokenReply("response", 200, TokenBody(None, None, Some("E401"), m)) :
         m \in {None, Some("Invalid credentials")} }
  \cup { TokenReply("response", st, TokenBody(None, None, None, m)) :
         st \in {401, 500}, m \in {None, Some("Invalid credentials")} }
  \cup { TokenReply("network", 0, TokenBody(None, None, None, None)) }

(***************************************************************************)
(* AuthOClient.                                                            *)
(***************************************************************************)
\* What a call of an AuthOClient method yields: an exception or a value, the
\* cache file after it, and the authorization calls it made.
AuthStep(threw, result, file, calls, wrote) ==
  [threw |-> threw, result |-> result, file |-> file, calls |-> calls, wrote |-> wrote]

\* AuthOClient.constructor: the timeout, in seconds, used when http.timeout is not set.
AuthDefaultTimeout == 15
\* this.timeout = (config.http?.timeout ?? 15) * 1000
AuthTimeout(config) ==
  (IF IsSome(config.http) THEN Get(config.http) ELSE AuthDefaultTimeout) * 1000
\* fetchToken: const token_url = 'https://api.kra.go.ke/v1/token/generate'.trim();
\* the statement the sbx test guards is an expression whose value is dropped.
TokenUrl(config) ==
  IF config.env = "sbx" THEN "https://api.kra.go.ke/v1/token/generate"
  ELSE "https://api.kra.go.ke/v1/token/generate"
\* fetchToken: the request handed to axios.get; basic stands for the
\* base64 text of consumer_key:consumer_secret of this.config.auth[this.config.env].
AuthRequest(config) ==
  [url |-> TokenUrl(config), basic |-> config.auth[config.env],
   timeout |-> AuthTimeout(config)]

\* fetchToken(), the remote answering with reply: [threw, exc, data, calls].
FetchToken(config, reply) ==
  IF ~config.credentials
    THEN [threw |-> TRUE, calls |-> 0, data |-> reply.body,
          exc |-> ApiException(PlainMsg("Auth config missing for env"), 500, None, None)]
  ELSE IF reply.kind = "network"
    THEN [threw |-> TRUE, calls |-> 1, data |-> reply.body,
          exc |-> ApiException(PlainMsg("error.message"), 500, None, None)]
  ELSE IF reply.status < 200 \/ reply.status >= 300
    THEN [threw |-> TRUE, calls |-> 1, data |-> reply.body,
          exc |-> ApiException(
                    IF IsSome(reply.body.errorMessage)
                      THEN Msg("errorMessage", 0, None, reply.body.errorMessage)
                      ELSE PlainMsg("error.message"),
                    reply.status, None, None)]
  ELSE IF IsSome(reply.body.errorCode)
    \* the ApiException thrown inside the try block is caught by the catch
    \* block below it, is no axios error, and is replaced
    THEN [threw |-> TRUE, calls |-> 1, data |-> reply.body,
          exc |-> ApiException(PlainMsg("Unexpected error during token fetch"), 500, None, None)]
  ELSE [threw |-> FALSE, calls |-> 1, data |-> reply.body, exc |-> Pending]

\* parseInt(tokenData.expires_in ?? '3600', 10)
ParseExpiresIn(life) == IF IsSome(life) THEN Get(life) ELSE DefaultExpiresIn

\* Mutant: <= in place of <.
CacheIsFresh_Inclusive(entry, t) == t <= entry.expires_at * TicksPerSec

\* Date.now() < cached.expires_at * 1000
CacheIsFresh(entry, t) == t < entry.expires_at * TicksPerSec

\* Mutant: the safety buffer is not subtracted.
ExpiresAt_NoBuffer(t, expiresIn) == (t \div TicksPerSec) + expiresIn

\* Math.floor(Date.now() / 1000) + expiresIn - 60
ExpiresAt(t, expiresIn) == (t \div TicksPerSec) + expiresIn - BufferSeconds

\* Mutant: forceRefresh is not consulted.
GetToken_IgnoresForce(config, file, t, forceRefresh, reply) ==
  LET cached == CacheRead(file)
      hit == IsSome(cached) /\ CacheIsFresh(Get(cached), t)
      f == FetchToken(config, reply)
  IN IF hit
       THEN AuthStep(FALSE, ReturnToken(Get(cached).access_token), file, 0, FALSE)
     ELSE IF f.threw
       THEN AuthStep(TRUE, f.exc, file, f.calls, FALSE)
     ELSE IF ~IsSome(f.data.access_token)
       THEN AuthStep(TRUE, ApiException(PlainMsg("Invalid token response from KRA"), 500, None, None),
                     file, f.calls, FALSE)
     ELSE AuthStep(FALSE, ReturnToken(Get(f.data.access_token)),
                   CacheWrite(file, TokenCache(Get(f.data.access_token),
                                               ExpiresAt(t, ParseExpiresIn(f.data.expires_in)))),
                   f.calls, TRUE)

\* Mutant: a failed acquisition removes the cache file.
GetToken_ClearsOnFailure(config, file, t, forceRefresh, reply) ==
  LET cached == CacheRead(file)
      hit == ~forceRefresh /\ IsSome(cached) /\ CacheIsFresh(Get(cached), t)
      f == FetchToken(config, reply)
  IN IF hit
       THEN AuthStep(FALSE, ReturnToken(Get(cached).access_token), file, 0, FALSE)
     ELSE IF f.threw
       THEN AuthStep(TRUE, f.exc, CacheClear(file), f.calls, TRUE)
     ELSE IF ~IsSome(f.data.access_token)
       THEN AuthStep(TRUE, ApiException(PlainMsg("Invalid token response from KRA"), 500, None, None),
                     CacheClear(file), f.calls, TRUE)
     ELSE AuthStep(FALSE, ReturnToken(Get(f.data.access_token)),
                   CacheWrite(file, TokenCache(Get(f.data.access_token),
                                               ExpiresAt(t, ParseExpiresIn(f.data.expires_in)))),
                   f.calls, TRUE)

\* getToken(forceRefresh) at time t, the authorization endpoint answering reply.
GetToken(config, file, t, forceRefresh, reply) ==
  LET cached == CacheRead(file)
      hit == ~forceRefresh /\ IsSome(cached) /\ CacheIsFresh(Get(cached), t)
      f == FetchToken(config, reply)
  IN IF hit
       THEN AuthStep(FALSE, ReturnToken(Get(cached).access_token), file, 0, FALSE)
     ELSE IF f.threw
       THEN AuthStep(TRUE, f.exc, file, f.calls, FALSE)
     ELSE IF ~IsSome(f.data.access_token)
       THEN AuthStep(TRUE, ApiException(PlainMsg("Invalid token response from KRA"), 500, None, None),
                     file, f.calls, FALSE)
     ELSE AuthStep(FALSE, ReturnToken(Get(f.data.access_token)),
                   CacheWrite(file, TokenCache(Get(f.data.access_token),
                                               ExpiresAt(t, ParseExpiresIn(f.data.expires_in)))),
                   f.calls, TRUE)

\* clearToken()
ClearToken(file) == AuthStep(FALSE, ReturnVoid, CacheClear(file), 0, TRUE)

(***************************************************************************)
(* The remote service, as request's axios call sees it.                    *)
(***************************************************************************)
\* A parsed body: the fields the pipeline reads.
Json(cd, msg, fault) == [resultCd |-> cd, resultMsg |-> msg, fault |-> fault]
EmptyJson == Json(None, None, None)
\* A raw body: "" (fmt "empty"), text that is no JSON (fmt "text"), or the
\* JSON text of json (fmt "json").
Body(fmt, json) == [fmt |-> fmt, json |-> json]

SuccessProbe == <<0,0,0>>
FailureProbe == <<9,0,0>>
EnvelopeBodies ==
  { Body("json", Json(cd, m, None)) :
      cd \in {None} \cup {Some(c) : c \in Codes},
      m \in {None} \cup {Some(x) : x \in ResultMsgs} }
FaultBodies ==
  { Body("json", Json(cd, None, Some(f))) :
      cd \in {None, Some(FailureProbe)}, f \in FaultStrings }
NoJsonBodies == { Body("empty", EmptyJson), Body("text", EmptyJson) }
AllBodies == EnvelopeBodies \cup FaultBodies \cup NoJsonBodies
\* The bodies tried with every status other than 200.
ShortBodies ==
     { Body("json", EmptyJson),
       Body("json", Json(Some(SuccessProbe), None, None)),
       Body("json", Json(Some(FailureProbe), Some("Invalid item code"), None)) }
  \cup { Body("json", Json(None, None, Some(f))) : f \in FaultStrings }
  \cup NoJsonBodies

\* kind "http": a response arrived; kind "none": timeout or network error.
Remote(kind, status, body) == [kind |-> kind, status |-> status, body |-> body]
RemoteOutcomes ==
     { Remote("http", 200, b) : b \in AllBodies }
  \cup { Remote("http", st, b) : st \in HttpStatuses \ {200}, b \in ShortBodies }
  \cup { Remote("none", 0, Body("empty", EmptyJson)) }

(***************************************************************************)
(* BaseOClient.                                                            *)
(***************************************************************************)
\* Mutant: the table without the key selectNoticeList.
endpoints_WithoutNoticeList ==
  [ selectInitOsdcInfo |-> "/selectInitOsdcInfo",
    selectCodeList |-> "/selectCodeList",
    selectCustomer |-> "/selectCustomer",
    selectItemClsList |-> "/selectItemClsList",
    selectItemList |-> "/selectItemList",
    saveItem |-> "/saveItem",
    saveItemComposition |-> "/saveItemComposition",
    selectBhfList |-> "/selectBhfList",
    saveBhfCustomer |-> "/saveBhfCustomer",
    saveBhfUser |-> "/saveBhfUser",
    saveBhfInsurance |-> "/saveBhfInsurance",
    selectImportItemList |-> "/selectImportItemList",
    updateImportItem |-> "/updateImportItem",
    saveTrnsSalesOsdc |-> "/saveTrnsSalesOsdc",
    selectTrnsPurchaseSalesList |-> "/selectTrnsPurchaseSalesList",
    insertTrnsPurchase |-> "/insertTrnsPurchase",
    selectStockMoveList |-> "/selectStockMoveList",
    insertStockIO |-> "/insertStockIO",
    saveStockMaster |-> "/saveStockMaster" ]
\* private static readonly endpoints
endpoints ==
  [ selectInitOsdcInfo |-> "/selectInitOsdcInfo",
    selectCodeList |-> "/selectCodeList",
    selectCustomer |-> "/selectCustomer",
    selectNoticeList |-> "/selectNoticeList",
    selectItemClsList |-> "/selectItemClsList",
    selectItemList |-> "/selectItemList",
    saveItem |-> "/saveItem",
    saveItemComposition |-> "/saveItemComposition",
    selectBhfList |-> "/selectBhfList",
    saveBhfCustomer |-> "/saveBhfCustomer",
    saveBhfUser |-> "/saveBhfUser",
    saveBhfInsurance |-> "/saveBhfInsurance",
    selectImportItemList |-> "/selectImportItemList",
    updateImportItem |-> "/updateImportItem",
    saveTrnsSalesOsdc |-> "/saveTrnsSalesOsdc",
    selectTrnsPurchaseSalesList |-> "/selectTrnsPurchaseSalesList",
    insertTrnsPurchase |-> "/insertTrnsPurchase",
    selectStockMoveList |-> "/selectStockMoveList",
    insertStockIO |-> "/insertStockIO",
    saveStockMaster |-> "/saveStockMaster" ]

\* endpoints is an object literal: a property read with a key it does not
\* own finds the members it inherits from Object.prototype.
ObjectPrototypeKeys ==
  { "constructor", "toString", "valueOf", "hasOwnProperty", "isPrototypeOf",
    "propertyIsEnumerable", "toLocaleString", "__proto__" }

\* The value of a property read: a string, a non-string truthy value, undefined.
Value(type, str) == [type |-> type, str |-> str]
Undefined == Value("undefined", "")

\* (BaseOClient.endpoints as Record<string, string>)[key]
EndpointLookup(k) ==
  IF k \in DOMAIN endpoints THEN Value("string", endpoints[k])
  ELSE IF k \in ObjectPrototypeKeys THEN Value("object", k)
  ELSE Undefined

\* key.startsWith('/')
StartsWithSlash(k) == k \in PathLikeKeys

\* endpoint(key): [threw, exc, value]
Endpoint(k) ==
  IF StartsWithSlash(k)
    THEN [threw |-> TRUE, value |-> Undefined,
          exc |-> ApiException(PlainMsg("Endpoint key expected, path given"), 500, None, None)]
  ELSE IF EndpointLookup(k).type = "undefined"
    THEN [threw |-> TRUE, value |-> Undefined,
          exc |-> ApiException(PlainMsg("Endpoint not configured"), 500, None, None)]
  ELSE [threw |-> FALSE, value |-> EndpointLookup(k), exc |-> Pending]

\* data ? JSON.parse(data) : {}  -- [threw, json]
JsonParse(body) ==
  IF body.fmt = "empty" THEN [threw |-> FALSE, json |-> EmptyJson]
  ELSE IF body.fmt = "text" THEN [threw |-> TRUE, json |-> EmptyJson]
  ELSE [threw |-> FALSE, json |-> body.json]

Response(status, body, json) == [status |-> status, body |-> body, json |-> json]
NoResponse == Response(0, Body("empty", EmptyJson), EmptyJson)

\* Mutant: a failure without a response is handed on as a 401 response.
Request_TransportAs401(ro) ==
  LET parsed == JsonParse(ro.body)
      failed == ApiException(PlainMsg("Request failed"), 500, None, None)
  IN IF ro.kind = "none"
       THEN [threw |-> FALSE, exc |-> Pending, response |-> Response(401, ro.body, EmptyJson)]
     ELSE IF ro.status >= 200 /\ ro.status < 300
       THEN IF parsed.threw
              THEN [threw |-> TRUE, exc |-> failed, response |-> NoResponse]
              ELSE [threw |-> FALSE, exc |-> Pending,
                    response |-> Response(ro.status, ro.body, parsed.json)]
     ELSE IF parsed.threw
       THEN [threw |-> TRUE, exc |-> SyntaxError, response |-> NoResponse]
       ELSE [threw |-> FALSE, exc |-> Pending,
             response |-> Response(ro.status, ro.body, parsed.json)]

\* The try / catch of request, the remote answering with ro: [threw, exc, response].
\* axios resolves on a status in [200,300) and rejects, with error.response
\* set, on any other status.
Request(ro) ==
  LET parsed == JsonParse(ro.body)
      failed == ApiException(PlainMsg("Request failed"), 500, None, None)
  IN IF ro.kind = "none"
       THEN [threw |-> TRUE, exc |-> failed, response |-> NoResponse]
     ELSE IF ro.status >= 200 /\ ro.status < 300
       \* a SyntaxError of JSON.parse inside the try block is caught below it
       THEN IF parsed.threw
              THEN [threw |-> TRUE, exc |-> failed, response |-> NoResponse]
              ELSE [threw |-> FALSE, exc |-> Pending,
                    response |-> Response(ro.status, ro.body, parsed.json)]
     \* a SyntaxError of JSON.parse inside the catch block propagates
     ELSE IF parsed.threw
       THEN [threw |-> TRUE, exc |-> SyntaxError, response |-> NoResponse]
       ELSE [threw |-> FALSE, exc |-> Pending,
             response |-> Response(ro.status, ro.body, parsed.json)]

\* /access token expired|invalid token/i.test(fault)
FaultPattern(fault) == fault \in { "Access Token expired", "Invalid Token" }

\* Mutant: the fault string is not consulted.
IsTokenExpired_StatusOnly(resp) == resp.status = 401

\* isTokenExpired(response)
IsTokenExpired(resp) ==
  \/ resp.status = 401
  \/ IsSome(resp.json.fault) /\ FaultPattern(Get(resp.json.fault))

\* json?.resultMsg ?? 'Unknown API response'
ResultMsgOf(json) ==
  IF IsSome(json.resultMsg) THEN json.resultMsg ELSE Some("Unknown API response")

\* !resultCd
ResultCdFalsy(json) == ~IsSome(json.resultCd) \/ Get(json.resultCd) = <<>>

\* Mutant: the case '001' label is missing.
IsSuccessCode_Only000(cd) == cd = <<0,0,0>>

\* case '000': case '001':
IsSuccessCode(cd) == cd \in { <<0,0,0>>, <<0,0,1>> }
\* resultCd >= '891' && resultCd <= '899'
IsClientCode(cd) == StrGE(cd, <<8,9,1>>) /\ StrLE(cd, <<8,9,9>>)
\* resultCd >= '900'
IsServerCode(cd) == StrGE(cd, <<9,0,0>>)

\* Mutant: the status === 401 test is missing, so a 401 is an HTTP error
\* like any other status outside [200,300).
Unwrap_No401Test(resp) ==
  LET json == resp.json
      resultMsg == ResultMsgOf(json)
  IN IF resp.status < 200 \/ resp.status >= 300
       THEN ApiException(Msg("HTTP Error", resp.status, None, resultMsg), resp.status, None, None)
     ELSE IF ResultCdFalsy(json) \/ IsSuccessCode(Get(json.resultCd)) THEN ReturnJson(json)
     ELSE ApiException(Msg("Business Error", 0, json.resultCd, resultMsg),
                       IF IsServerCode(Get(json.resultCd)) THEN 500 ELSE 400,
                       json.resultCd, Some(json))

\* Mutant: a business error is thrown like an HTTP error, without the
\* result code and the body.
Unwrap_NoErrorCode(resp) ==
  LET json == resp.json
      resultMsg == ResultMsgOf(json)
  IN IF resp.status = 401
       THEN AuthenticationException(PlainMsg("Unauthorized: Invalid or expired token"), 401)
     ELSE IF resp.status < 200 \/ resp.status >= 300
       THEN ApiException(Msg("HTTP Error", resp.status, None, resultMsg), resp.status, None, None)
     ELSE IF ResultCdFalsy(json) \/ IsSuccessCode(Get(json.resultCd)) THEN ReturnJson(json)
     ELSE ApiException(Msg("Business Error", 0, json.resultCd, resultMsg),
                       IF IsServerCode(Get(json.resultCd)) THEN 500 ELSE 400,
                       None, None)

\* unwrap(response): the value returned or the exception thrown.
Unwrap(resp) ==
  LET json == resp.json
      resultMsg == ResultMsgOf(json)
  IN IF resp.status = 401
       THEN AuthenticationException(PlainMsg("Unauthorized: Invalid or expired token"), 401)
     ELSE IF resp.status < 200 \/ resp.status >= 300
       THEN ApiException(Msg("HTTP Error", resp.status, None, resultMsg), resp.status, None, None)
     ELSE IF ResultCdFalsy(json) THEN ReturnJson(json)
     ELSE IF IsSuccessCode(Get(json.resultCd)) THEN ReturnJson(json)
     ELSE IF IsClientCode(Get(json.resultCd))
       THEN ApiException(Msg("Client Error", 0, json.resultCd, resultMsg), 400,
                         json.resultCd, Some(json))
     ELSE IF IsServerCode(Get(json.resultCd))
       THEN ApiException(Msg("Server Error", 0, json.resultCd, resultMsg), 500,
                         json.resultCd, Some(json))
     ELSE ApiException(Msg("Business Error", 0, json.resultCd, resultMsg), 400,
                       json.resultCd, Some(json))

\* The URL and the body request hands to axios for one dispatch.
\* BaseOClient.timeout: the timeout, in seconds, used when http.timeout is not set.
DefaultTimeout == 30
\* timeout(): (this.config.http?.timeout ?? 30) * 1000
Timeout(config) ==
  (IF IsSome(config.http) THEN Get(config.http) ELSE DefaultTimeout) * 1000
\* baseUrl(): both branches return the same literal.
BaseUrl(config) ==
  IF config.env = "sbx" THEN "https://etims-api-sbx.kra.go.ke/etims-api"
  ELSE "https://etims-api-sbx.kra.go.ke/etims-api"

\* Mutant: the retry is sent without the request body.
BodyOf_DroppedOnRetry(m, d) == IF m # "GET" /\ pc # "dispatch2" THEN Some(d) ELSE None

QueryOf(m, d) == IF m = "GET" /\ Len(d) > 0 THEN Some(d) ELSE None
BodyOf(m, d) == IF m # "GET" THEN Some(d) ELSE None

\* endpoint.endsWith('/selectInitOsdcInfo')
IsInitEndpoint(path) == path = "/selectInitOsdcInfo"

\* Mutant: the initialization endpoint is not told apart.
HeadersFor_NoInitCase(config, path, token) ==
  [Authorization |-> token,
   tin |-> Some(config.tin), bhfId |-> Some(config.bhf_id),
   cmcKey |-> IF IsSome(config.cmc_key) THEN config.cmc_key ELSE Some("")]

\* The headers buildHeaders returns for a string endpoint, given the token.
HeadersFor(config, path, token) ==
  IF IsInitEndpoint(path)
    THEN [Authorization |-> token, tin |-> None, bhfId |-> None, cmcKey |-> None]
    ELSE [Authorization |-> token,
          tin |-> Some(config.tin), bhfId |-> Some(config.bhf_id),
          cmcKey |-> IF IsSome(config.cmc_key) THEN config.cmc_key ELSE Some("")]
NoHeaders == [Authorization |-> "", tin |-> None, bhfId |-> None, cmcKey |-> None]

(***************************************************************************)
(* Validator (services/Validator): the Joi schemas of the constructor and  *)
(* validate.                                                               *)
(***************************************************************************)
RECURSIVE Flatten(_)
Flatten(ss) == IF Len(ss) = 0 THEN <<>> ELSE Head(ss) \o Flatten(Tail(ss))

DigitChars == <<"0", "1", "2", "3", "4", "5", "6", "7", "8", "9">>
IsDigit(c) == \E i \in 1..Len(DigitChars) : DigitChars[i] = c
DigitOf(c) == (CHOOSE i \in 1..Len(DigitChars) : DigitChars[i] = c) - 1
\* /^\d{n}$/
MatchesDigits(s, n) == Len(s) = n /\ \A i \in 1..Len(s) : IsDigit(s[i])
\* Number(s) of a string Joi.number() converts: decimal digits only.
IsNumeric(s) == Len(s) > 0 /\ \A i \in 1..Len(s) : IsDigit(s[i])
RECURSIVE ToNumber(_)
ToNumber(s) ==
  IF Len(s) = 0 THEN 0 ELSE 10 * ToNumber(SubSeq(s, 1, Len(s) - 1)) + DigitOf(s[Len(s)])

\* One rule of a schema, and a schema: its type, its presence, its rules in
\* the order they are chained, the values valid() and allow() list, the
\* flag valid() sets, the keys of a Joi.object, the item schema of a
\* Joi.array or the schemas of Joi.alternatives().try, and the flag
\* unknown() sets.
Rule(name, limit) == [name |-> name, limit |-> limit]
JoiSchema(type, presence, rules, valids, only) ==
  [type |-> type, presence |-> presence, rules |-> rules, valids |-> valids, only |-> only,
   keys |-> <<>>, items |-> <<>>, unknown |-> None]
JoiString(presence, rules) == JoiSchema("string", presence, rules, {}, FALSE)
JoiNumber(presence, rules) == JoiSchema("number", presence, rules, {}, FALSE)
\* Joi.string().valid(...)
JoiValid(presence, values) == JoiSchema("string", presence, <<>>, values, TRUE)
\* schema.allow(null)
AllowNull(schema) == [schema EXCEPT !.valids = @ \cup {VNull}]
\* Joi.object({...}) and Joi.object({...}).unknown(false)
JoiObject(presence, keys) ==
  [JoiSchema("object", presence, <<>>, {}, FALSE) EXCEPT !.keys = keys]
JoiObjectUnknownFalse(presence, keys) ==
  [JoiObject(presence, keys) EXCEPT !.unknown = Some(FALSE)]
\* Joi.array().items(item) with its rules
JoiArray(presence, item, rules) ==
  [JoiSchema("array", presence, rules, {}, FALSE) EXCEPT !.items = <<item>>]
\* Joi.alternatives().try(...)
JoiAlternatives(presence, try) ==
  [JoiSchema("alternatives", presence, <<>>, {}, FALSE) EXCEPT !.items = try]

\* CORE FIELD VALIDATORS
tin == JoiString("required", <<Rule("min", 1), Rule("max", 20)>>)
bhfId == JoiString("required", <<Rule("min", 1), Rule("max", 10)>>)
lastReqDt == JoiString("required", <<Rule("pattern", 14)>>)
useYn == JoiValid("required", {VStr(<<"Y">>), VStr(<<"N">>)})

Key(k, schema) == [k |-> k, schema |-> schema]
\* The shorthands of the sales schema below.
Str(presence, max) == JoiString(presence, <<Rule("max", max)>>)
OptStr(max) == AllowNull(Str("optional", max))
OptDate == AllowNull(JoiString("optional", <<Rule("pattern", 14)>>))
Num == JoiNumber("required", <<>>)
OptNum == AllowNull(JoiNumber("optional", <<>>))
JoiInteger(min) == JoiNumber("required", <<Rule("integer", 0), Rule("min", min)>>)

\* saveTrnsSalesOsdc: the receipt object and the items of itemList
receiptKeys ==
  << Key("custTin", AllowNull(JoiString("optional", <<Rule("length", 11)>>))),
     Key("custMblNo", OptStr(20)),
     Key("rcptPbctDt", JoiString("required", <<Rule("pattern", 14)>>)),
     Key("trdeNm", OptStr(20)), Key("adrs", OptStr(200)),
     Key("topMsg", OptStr(20)), Key("btmMsg", OptStr(20)),
     Key("prchrAcptcYn", JoiValid("required", {VStr(<<"Y">>), VStr(<<"N">>)})) >>
salesItemKeys ==
  << Key("itemSeq", JoiInteger(1)),
     Key("itemCd", Str("required", 20)), Key("itemClsCd", OptStr(10)),
     Key("itemNm", Str("required", 200)), Key("bcd", OptStr(20)),
     Key("pkgUnitCd", Str("required", 5)), Key("pkg", Num),
     Key("qtyUnitCd", Str("required", 5)), Key("qty", Num),
     Key("prc", Num), Key("splyAmt", Num), Key("dcRt", Num), Key("dcAmt", Num),
     Key("isrccCd", OptStr(10)), Key("isrccNm", OptStr(100)),
     Key("isrcRt", OptNum), Key("isrcAmt", OptNum),
     Key("taxTyCd", Str("required", 5)), Key("taxblAmt", Num), Key("taxAmt", Num),
     Key("totAmt", Num) >>
saveTrnsSalesOsdc ==
  << Key("tin", JoiString("required", <<Rule("length", 11)>>)),
     Key("bhfId", JoiString("required", <<Rule("length", 2)>>)),
     Key("cmcKey", Str("required", 255)),
     Key("trdInvcNo", JoiAlternatives("required",
                        <<JoiString("optional", <<Rule("max", 50)>>),
                          JoiNumber("optional", <<>>)>>)),
     Key("invcNo", JoiInteger(0)), Key("orgInvcNo", JoiInteger(0)),
     Key("custTin", AllowNull(JoiString("optional", <<Rule("length", 11)>>))),
     Key("custNm", OptStr(60)),
     Key("rcptTyCd", Str("required", 5)), Key("pmtTyCd", OptStr(5)),
     Key("salesSttsCd", Str("required", 5)),
     Key("cfmDt", JoiString("required", <<Rule("pattern", 14)>>)),
     Key("salesDt", JoiString("required", <<Rule("pattern", 8)>>)),
     Key("stockRlsDt", OptDate), Key("cnclReqDt", OptDate), Key("cnclDt", OptDate),
     Key("rfdDt", OptDate), Key("rfdRsnCd", OptStr(5)),
     Key("totItemCnt", JoiInteger(1)),
     Key("taxblAmtA", Num), Key("taxblAmtB", Num), Key("taxblAmtC", Num),
     Key("taxblAmtD", Num), Key("taxblAmtE", Num),
     Key("taxRtA", Num), Key("taxRtB", Num), Key("taxRtC", Num),
     Key("taxRtD", Num), Key("taxRtE", Num),
     Key("taxAmtA", Num), Key("taxAmtB", Num), Key("taxAmtC", Num),
     Key("taxAmtD", Num), Key("taxAmtE", Num),
     Key("totTaxblAmt", Num), Key("totTaxAmt", Num), Key("totAmt", Num),
     Key("prchrAcptcYn", JoiValid("required", {VStr(<<"Y">>), VStr(<<"N">>)})),
     Key("remark", OptStr(400)),
     Key("regrId", Str("required", 20)), Key("regrNm", Str("required", 60)),
     Key("modrId", Str("required", 20)), Key("modrNm", Str("required", 60)),
     Key("receipt", JoiObject("required", receiptKeys)),
     Key("itemList", JoiArray("required", JoiObjectUnknownFalse("optional", salesItemKeys),
                              <<Rule("min", 1)>>)) >>

\* The shorthands of the schemas below.
ReqStr == JoiString("required", <<>>)
OptString == JoiString("optional", <<>>)
StrRange(min, max) == JoiString("required", <<Rule("min", min), Rule("max", max)>>)
NullableStr == AllowNull(JoiString("optional", <<>>))
NullableLength(n) == AllowNull(JoiString("optional", <<Rule("length", n)>>))
OptNumber == JoiNumber("optional", <<>>)
\* Joi.alternatives().try(Joi.string().length(8), Joi.string().length(14))
\*   .optional().allow(null)
DateAlternatives ==
  AllowNull(JoiAlternatives("optional", <<JoiString("optional", <<Rule("length", 8)>>),
                                          JoiString("optional", <<Rule("length", 14)>>)>>))

saveBhfCustomer ==
  << Key("custNo", ReqStr), Key("custTin", tin), Key("custNm", ReqStr),
     Key("useYn", useYn), Key("regrId", ReqStr), Key("regrNm", ReqStr),
     Key("modrId", OptString), Key("modrNm", OptString) >>
saveBhfUser ==
  << Key("userId", ReqStr), Key("userNm", ReqStr), Key("pwd", ReqStr),
     Key("useYn", useYn), Key("regrId", ReqStr), Key("regrNm", ReqStr),
     Key("modrId", OptString), Key("modrNm", OptString) >>
saveItem ==
  << Key("itemCd", ReqStr), Key("itemClsCd", ReqStr), Key("itemTyCd", ReqStr),
     Key("itemNm", ReqStr), Key("itemStdNm", NullableStr),
     Key("orgnNatCd", StrRange(2, 5)),
     Key("pkgUnitCd", ReqStr), Key("qtyUnitCd", ReqStr), Key("taxTyCd", ReqStr),
     Key("dftPrc", JoiNumber("required", <<Rule("min", 0)>>)),
     Key("grpPrcL1", OptNumber), Key("grpPrcL2", OptNumber), Key("grpPrcL3", OptNumber),
     Key("grpPrcL4", OptNumber), Key("grpPrcL5", OptNumber),
     Key("btchNo", NullableStr), Key("bcd", NullableStr), Key("addInfo", NullableStr),
     Key("sftyQty", OptNumber),
     Key("isrcAplcbYn", JoiValid("required", {VStr(<<"Y">>), VStr(<<"N">>)})),
     Key("useYn", useYn), Key("regrId", ReqStr), Key("regrNm", ReqStr),
     Key("modrId", ReqStr), Key("modrNm", ReqStr) >>
\* (min(0.001) of cpstQty is min(1) on the integers.)
saveItemComposition ==
  << Key("itemCd", ReqStr), Key("cpstItemCd", ReqStr),
     Key("cpstQty", JoiNumber("required", <<Rule("min", 1)>>)),
     Key("regrId", ReqStr), Key("regrNm", ReqStr),
     Key("modrId", OptString), Key("modrNm", OptString) >>
updateImportItem ==
  << Key("taskCd", ReqStr), Key("dclDe", StrRange(8, 14)),
     Key("itemSeq", JoiNumber("required", <<Rule("min", 1)>>)),
     Key("hsCd", Str("required", 17)), Key("itemClsCd", Str("required", 10)),
     Key("itemCd", Str("required", 20)), Key("imptItemSttsCd", ReqStr),
     Key("modrId", ReqStr), Key("modrNm", ReqStr), Key("remark", OptString) >>
saveStockMaster ==
  << Key("itemCd", StrRange(1, 20)),
     Key("rsdQty", JoiNumber("required", <<Rule("min", 0)>>)),
     Key("regrId", ReqStr), Key("regrNm", ReqStr),
     Key("modrId", ReqStr), Key("modrNm", ReqStr) >>
\* insertTrnsPurchase: the items of itemList, and the schema
purchaseItemKeys ==
  << Key("itemSeq", JoiInteger(1)),
     Key("itemCd", StrRange(1, 20)), Key("itemClsCd", StrRange(1, 10)),
     Key("itemNm", StrRange(1, 200)), Key("bcd", OptStr(20)),
     Key("spplrItemClsCd", OptStr(10)), Key("spplrItemCd", OptStr(20)),
     Key("spplrItemNm", OptStr(200)),
     Key("pkgUnitCd", StrRange(1, 5)),
     Key("pkg", JoiNumber("required", <<Rule("integer", 0)>>)),
     Key("qtyUnitCd", StrRange(1, 5)),
     Key("qty", JoiNumber("required", <<Rule("integer", 0)>>)),
     Key("prc", Num), Key("splyAmt", Num), Key("dcRt", Num), Key("dcAmt", Num),
     Key("taxblAmt", Num), Key("taxTyCd", StrRange(1, 5)), Key("taxAmt", Num),
     Key("totAmt", Num), Key("itemExprDt", DateAlternatives) >>
insertTrnsPurchase ==
  << Key("spplrTin", NullableLength(11)),
     Key("invcNo", JoiInteger(0)), Key("orgInvcNo", JoiInteger(0)),
     Key("spplrBhfId", NullableLength(2)), Key("spplrNm", OptStr(60)),
     Key("spplrInvcNo", AllowNull(JoiNumber("optional", <<Rule("integer", 0), Rule("min", 0)>>))),
     Key("regTyCd", StrRange(1, 5)), Key("pchsTyCd", StrRange(1, 5)),
     Key("rcptTyCd", StrRange(1, 5)), Key("pmtTyCd", StrRange(1, 5)),
     Key("pchsSttsCd", StrRange(1, 5)),
     Key("cfmDt", DateAlternatives), Key("pchsDt", DateAlternatives),
     Key("wrhsDt", DateAlternatives), Key("cnclReqDt", DateAlternatives),
     Key("cnclDt", DateAlternatives), Key("rfdDt", DateAlternatives),
     Key("totItemCnt", JoiInteger(0)),
     Key("taxblAmtA", Num), Key("taxblAmtB", Num), Key("taxblAmtC", Num),
     Key("taxblAmtD", Num), Key("taxblAmtE", Num),
     Key("taxRtA", Num), Key("taxRtB", Num), Key("taxRtC", Num),
     Key("taxRtD", Num), Key("taxRtE", Num),
     Key("taxAmtA", Num), Key("taxAmtB", Num), Key("taxAmtC", Num),
     Key("taxAmtD", Num), Key("taxAmtE", Num),
     Key("totTaxblAmt", Num), Key("totTaxAmt", Num), Key("totAmt", Num),
     Key("remark", OptStr(400)),
     Key("regrId", StrRange(1, 20)), Key("regrNm", StrRange(1, 60)),
     Key("modrId", StrRange(1, 20)), Key("modrNm", StrRange(1, 60)),
     Key("itemList", JoiArray("required", JoiObjectUnknownFalse("optional", purchaseItemKeys),
                              <<Rule("min", 1)>>)) >>
\* insertStockIO: the items of itemList, and the schema
stockItemKeys ==
  << Key("itemSeq", JoiInteger(1)),
     Key("itemCd", StrRange(1, 20)), Key("itemClsCd", StrRange(1, 10)),
     Key("itemNm", StrRange(1, 200)), Key("bcd", OptStr(20)),
     Key("pkgUnitCd", StrRange(1, 5)), Key("pkg", Num),
     Key("qtyUnitCd", StrRange(1, 5)), Key("qty", Num),
     Key("itemExprDt", NullableLength(8)),
     Key("prc", Num), Key("splyAmt", Num), Key("totDcAmt", Num), Key("taxblAmt", Num),
     Key("taxTyCd", StrRange(1, 5)), Key("taxAmt", Num), Key("totAmt", Num) >>
insertStockIO ==
  << Key("tin", JoiString("required", <<Rule("length", 11)>>)),
     Key("bhfId", JoiString("required", <<Rule("length", 2)>>)),
     Key("sarNo", JoiInteger(0)), Key("orgSarNo", JoiInteger(0)),
     Key("regTyCd", StrRange(1, 5)),
     Key("custTin", NullableLength(11)), Key("custNm", OptStr(100)),
     Key("custBhfId", NullableLength(2)),
     Key("sarTyCd", StrRange(1, 5)),
     Key("ocrnDt", JoiString("required", <<Rule("length", 8)>>)),
     Key("totItemCnt", JoiInteger(0)),
     Key("totTaxblAmt", Num), Key("totTaxAmt", Num), Key("totAmt", Num),
     Key("remark", OptStr(400)),
     Key("regrId", StrRange(1, 20)), Key("regrNm", StrRange(1, 60)),
     Key("modrId", StrRange(1, 20)), Key("modrNm", StrRange(1, 60)),
     Key("itemList", JoiArray("required", JoiObjectUnknownFalse("optional", stockItemKeys),
                              <<Rule("min", 1)>>)) >>

\* SCHEMAS: the keys of each Joi.object, in the order they are declared.
schemas ==
  [ initialization |->
      << Key("tin", tin), Key("bhfId", bhfId),
         Key("dvcSrlNo", JoiString("required", <<Rule("min", 1), Rule("max", 50)>>)) >>,
    lastReqOnly |-> << Key("lastReqDt", lastReqDt) >>,
    selectCustomer |-> << Key("custmTin", tin) >>,
    saveBhfInsurance |->
      << Key("isrccCd", JoiString("required", <<>>)),
         Key("isrccNm", JoiString("required", <<>>)),
         Key("isrcRt", JoiNumber("required", <<Rule("min", 0)>>)),
         Key("useYn", useYn),
         Key("regrId", JoiString("required", <<>>)),
         Key("regrNm", JoiString("required", <<>>)),
         Key("modrId", JoiString("optional", <<>>)),
         Key("modrNm", JoiString("optional", <<>>)) >>,
    saveBhfCustomer |-> saveBhfCustomer,
    saveBhfUser |-> saveBhfUser,
    saveItem |-> saveItem,
    saveItemComposition |-> saveItemComposition,
    updateImportItem |-> updateImportItem,
    saveTrnsSalesOsdc |-> saveTrnsSalesOsdc,
    saveStockMaster |-> saveStockMaster,
    insertTrnsPurchase |-> insertTrnsPurchase,
    insertStockIO |-> insertStockIO ]

\* The Validator that EtimsClient imports: the items of itemList and the
\* schemas.  (min(0.001) of qty is min(1) on the integers.)
Amount == JoiNumber("required", <<Rule("min", 0)>>)
transactionItemKeys ==
  << Key("itemSeq", JoiInteger(1)),
     Key("itemCd", JoiString("required", <<>>)),
     Key("itemClsCd", JoiString("required", <<>>)),
     Key("itemNm", JoiString("required", <<>>)),
     Key("qty", JoiNumber("required", <<Rule("min", 1)>>)),
     Key("prc", Amount), Key("splyAmt", Amount),
     Key("taxTyCd", JoiValid("required", {VStr(<<"A">>), VStr(<<"B">>), VStr(<<"C">>),
                                          VStr(<<"D">>), VStr(<<"E">>)})),
     Key("taxblAmt", Amount), Key("taxAmt", Amount), Key("totAmt", Amount) >>
salesTransaction ==
  << Key("invcNo", JoiInteger(1)),
     Key("custTin", JoiString("required", <<>>)),
     Key("custNm", JoiString("required", <<>>)),
     Key("salesTyCd", JoiValid("required", {VStr(<<"N">>), VStr(<<"R">>)})),
     Key("rcptTyCd", JoiValid("required", {VStr(<<"R">>), VStr(<<"P">>), VStr(<<"C">>)})),
     Key("pmtTyCd", JoiString("required", <<Rule("pattern", 2)>>)),
     Key("salesSttsCd", JoiValid("required", {VStr(<<"0", "1">>), VStr(<<"0", "2">>),
                                              VStr(<<"0", "3">>)})),
     Key("cfmDt", JoiString("required", <<Rule("pattern", 14)>>)),
     Key("salesDt", JoiString("required", <<Rule("pattern", 8)>>)),
     Key("totItemCnt", JoiInteger(1)),
     Key("totTaxblAmt", Amount), Key("totTaxAmt", Amount), Key("totAmt", Amount),
     Key("regrId", JoiString("required", <<>>)),
     Key("regrNm", JoiString("required", <<>>)),
     Key("itemList", JoiArray("required", JoiObject("optional", transactionItemKeys),
                              <<Rule("min", 1)>>)) >>
\* codeList, itemClsList, noticeList, taxpayerInfo and customerList
tinBhfIdLastReqDt == << Key("tin", tin), Key("bhfId", bhfId), Key("lastReqDt", lastReqDt) >>
schemasEtimsClient ==
  [ initialization |->
      << Key("tin", tin), Key("bhfId", bhfId),
         Key("dvcSrlNo", JoiString("required", <<Rule("min", 1), Rule("max", 50)>>)) >>,
    codeList |-> tinBhfIdLastReqDt,
    itemClsList |-> tinBhfIdLastReqDt,
    bhfList |-> << Key("lastReqDt", lastReqDt) >>,
    noticeList |-> tinBhfIdLastReqDt,
    taxpayerInfo |-> tinBhfIdLastReqDt,
    customerList |-> tinBhfIdLastReqDt,
    branchInsurance |->
      << Key("isrccCd", ReqStr), Key("isrccNm", ReqStr),
         Key("isrcRt", JoiNumber("required", <<Rule("min", 0)>>)),
         Key("useYn", useYn), Key("regrNm", ReqStr), Key("regrId", ReqStr) >>,
    branchUserAccount |->
      << Key("userId", ReqStr), Key("userNm", ReqStr), Key("pwd", ReqStr),
         Key("useYn", useYn), Key("regrNm", ReqStr), Key("regrId", ReqStr) >>,
    customerInfo |->
      << Key("custNo", ReqStr), Key("custTin", ReqStr), Key("custNm", ReqStr),
         Key("useYn", useYn), Key("regrNm", ReqStr), Key("regrId", ReqStr) >>,
    salesTransaction |-> salesTransaction ]

\* One entry of error.details: the path of the value, every index of an
\* array written as the text validate joins it as, and the error type.
Detail(path, type) == [path |-> path, type |-> type]
IndexSegment(i) == <<"[0]", "[1]", "[2]">>[i]

\* Mutant: the conversion also turns a number into its text.
Coerce_BothWays(schema, x, convert) ==
  IF convert /\ schema.type = "number" /\ x.t = "string" /\ IsNumeric(x.s)
    THEN VNum(ToNumber(x.s))
  ELSE IF convert /\ schema.type = "number" /\ x.t = "number" THEN VStr(<<"n">>)
  ELSE x

\* Joi's conversion of a value before the type test (convert: true).
Coerce(schema, x, convert) ==
  IF convert /\ schema.type = "number" /\ x.t = "string" /\ IsNumeric(x.s)
    THEN VNum(ToNumber(x.s))
    ELSE x

\* The error of one rule on a value of the schema's type, if any.  A number
\* is an integer here, so the rule integer() finds nothing.
RuleError(type, rule, x) ==
  IF type = "string" /\ rule.name = "min" /\ Len(x.s) < rule.limit THEN <<"string.min">>
  ELSE IF type = "string" /\ rule.name = "max" /\ Len(x.s) > rule.limit THEN <<"string.max">>
  ELSE IF type = "string" /\ rule.name = "length" /\ Len(x.s) # rule.limit
    THEN <<"string.length">>
  ELSE IF type = "string" /\ rule.name = "pattern" /\ ~MatchesDigits(x.s, rule.limit)
    THEN <<"string.pattern.base">>
  ELSE IF type = "number" /\ rule.name = "min" /\ x.n < rule.limit THEN <<"number.min">>
  ELSE IF type = "array" /\ rule.name = "min" /\ Len(x.c) < rule.limit THEN <<"array.min">>
  ELSE <<>>

\* The error of the base type of a schema on a value, if any.
BaseError(type, y) ==
  IF type = "string" /\ y.t # "string" THEN <<"string.base">>
  ELSE IF type = "string" /\ Len(y.s) = 0 THEN <<"string.empty">>
  ELSE IF type \in {"number", "object", "array"} /\ y.t # type
    THEN (IF type = "number" THEN <<"number.base">>
          ELSE IF type = "object" THEN <<"object.base">> ELSE <<"array.base">>)
  ELSE <<>>
BaseTypeErrors == {"string.base", "number.base", "object.base", "array.base"}

RECURSIVE JoiValue(_, _, _, _)
RECURSIVE KeyDetails(_, _, _, _)
RECURSIVE JoiKeys(_, _, _, _, _)
RECURSIVE JoiItems(_, _, _, _)
RECURSIVE JoiTry(_, _, _, _)

\* Joi.alternatives().try(...): the value of the first schema that accepts
\* x; when none does, the error of the only schema tried, alternatives.types
\* when every schema failed on its base type or its list of values, the
\* error of the only schema that failed otherwise, alternatives.match else.
JoiTry(schema, x, path, prefs) ==
  LET tries == [i \in 1..Len(schema.items) |-> JoiValue(schema.items[i], x, path, prefs)]
      matched == { i \in 1..Len(tries) : Len(tries[i].errors) = 0 }
      many == \E i \in 1..Len(tries) : Len(tries[i].errors) > 1
      complex == { i \in 1..Len(tries) :
                     \/ Len(tries[i].errors[1].path) # Len(path)
                     \/ tries[i].errors[1].type \notin (BaseTypeErrors \cup {"any.only"}) }
  IN IF matched # {}
       THEN tries[CHOOSE i \in matched : \A j \in matched : i <= j]
     ELSE IF Len(tries) = 1 THEN tries[1]
     ELSE IF many THEN [errors |-> <<Detail(path, "alternatives.match")>>, value |-> x]
     ELSE IF complex = {} THEN [errors |-> <<Detail(path, "alternatives.types")>>, value |-> x]
     ELSE IF Cardinality(complex) = 1
       THEN [errors |-> <<tries[CHOOSE i \in complex : TRUE].errors[1]>>, value |-> x]
     ELSE [errors |-> <<Detail(path, "alternatives.match")>>, value |-> x]

\* The items of an array, each against the item schema.  [errors, value]
JoiItems(schema, items, path, prefs) ==
  LET each == [i \in 1..Len(items) |->
                 JoiValue(schema.items[1], items[i], Append(path, IndexSegment(i)), prefs)]
  IN [errors |-> Flatten([i \in 1..Len(items) |-> each[i].errors]),
      value |-> [i \in 1..Len(items) |-> each[i].value]]

\* Joi's validation of one value that is present: a listed value is
\* accepted at once; a value outside the list of valid() is an error; an
\* error of the base type ends the validation of the value; then the keys
\* of an object, the items of an array, and every rule.  [errors, value]
JoiValue(schema, x, path, prefs) ==
  LET y == Coerce(schema, x, prefs.convert)
      At(types) == [i \in 1..Len(types) |-> Detail(path, types[i])]
      only == IF schema.only THEN <<"any.only">> ELSE <<>>
      base == BaseError(schema.type, y)
      rules == Flatten([i \in 1..Len(schema.rules) |-> RuleError(schema.type, schema.rules[i], y)])
  IN IF x \in schema.valids THEN [errors |-> <<>>, value |-> x]
     ELSE IF schema.type = "alternatives" THEN JoiTry(schema, x, path, prefs)
     ELSE IF Len(base) > 0 THEN [errors |-> At(only \o base), value |-> y]
     ELSE IF schema.type = "object"
       THEN LET r == JoiKeys(schema.keys, y.c, path, prefs, schema.unknown)
            IN [errors |-> r.errors, value |-> VObj(r.value)]
     ELSE IF schema.type = "array"
       THEN LET r == JoiItems(schema, y.c, path, prefs)
            IN [errors |-> r.errors \o At(rules), value |-> VArr(r.value)]
     ELSE [errors |-> At(only \o rules), value |-> y]

\* The details of one declared key.
KeyDetails(entry, d, path, prefs) ==
  IF entry.k \notin Keys(d)
    THEN IF entry.schema.presence = "required"
           THEN <<Detail(Append(path, entry.k), "any.required")>> ELSE <<>>
    ELSE JoiValue(entry.schema, ValueOf(d, entry.k), Append(path, entry.k), prefs).errors

\* The keys of an object at path: the declared keys in the order of the
\* schema, then the keys that are not declared, which are errors unless
\* the flag of unknown(), or without it the preference allowUnknown, allows
\* them.  [errors, value]
JoiKeys(keys, d, path, prefs, unknown) ==
  LET declared == { keys[i].k : i \in 1..Len(keys) }
      SchemaOf(k) == keys[CHOOSE i \in 1..Len(keys) : keys[i].k = k].schema
      allowed == IF IsSome(unknown) THEN Get(unknown) ELSE prefs.allowUnknown
      known == Flatten([i \in 1..Len(keys) |-> KeyDetails(keys[i], d, path, prefs)])
      undeclared == Flatten([i \in 1..Len(d) |->
                      IF d[i].k \in declared \/ allowed THEN <<>>
                      ELSE <<Detail(Append(path, d[i].k), "object.unknown")>>])
  IN [errors |-> known \o undeclared,
      value |-> [i \in 1..Len(d) |->
                  IF d[i].k \in declared
                    THEN Prop(d[i].k, JoiValue(SchemaOf(d[i].k), d[i].v,
                                               Append(path, d[i].k), prefs).value)
                    ELSE d[i]]]

\* schema.validate(data, prefs) of a Joi.object.  [errors, value]
JoiObjectValidate(schema, d, prefs) ==
  LET r == JoiKeys(schema, d, <<>>, prefs, None)
  IN [errors |-> IF prefs.abortEarly /\ Len(r.errors) > 1 THEN <<r.errors[1]>> ELSE r.errors,
      value |-> r.value]

\* Mutant: Joi stops at the first error.
JoiPrefs_AbortEarly == [abortEarly |-> TRUE, allowUnknown |-> FALSE, convert |-> TRUE]

\* Mutant: properties no schema declares are let through.
JoiPrefs_AllowUnknown == [abortEarly |-> FALSE, allowUnknown |-> TRUE, convert |-> TRUE]

\* The preferences validate hands to schema.validate.
JoiPrefs == [abortEarly |-> FALSE, allowUnknown |-> FALSE, convert |-> TRUE]

\* `${key}: ${d.message.replace(/["']/g, '')}`, the message standing for
\* its error type.
Message(d) ==
  [key |-> IF Len(d.path) = 0 THEN <<"(unknown field)">> ELSE d.path, text |-> d.type]

\* new ValidationException('Validation failed', messages)
ValidationException(errors) ==
  [Result("ValidationException", 0, None, PlainMsg("Validation failed"), None, None, None)
     EXCEPT !.errors = errors]
\* new Error(`Validation schema '${schemaName}' not defined`)
SchemaNotDefined ==
  Result("Error", 0, None, PlainMsg("Validation schema not defined"), None, None, None)

\* Mutant: validate hands the data on whatever Joi reports.
ValidatorValidate_NeverThrows(d, name) ==
  [threw |-> FALSE, exc |-> Pending, value |-> d]

\* Mutant: a schema name that is not defined is reported as a payload that
\* fails validation.
ValidatorValidate_UndefinedIsInvalid(d, name) ==
  IF name \notin DOMAIN schemas
    THEN [threw |-> TRUE, exc |-> ValidationException(<<>>), value |-> d]
  ELSE LET r == JoiObjectValidate(schemas[name], d, JoiPrefs)
       IN IF Len(r.errors) > 0
            THEN [threw |-> TRUE, value |-> d,
                  exc |-> ValidationException([i \in 1..Len(r.errors) |-> Message(r.errors[i])])]
            ELSE [threw |-> FALSE, exc |-> Pending, value |-> r.value]

\* Validator.validate(data, schemaName): [threw, exc, value].  this.schemas
\* is an object literal: a name it does not own finds the members of
\* Object.prototype, which have no validate method.
ValidatorValidate(d, name) ==
  IF name \in ObjectPrototypeKeys
    THEN [threw |-> TRUE, exc |-> TypeError, value |-> d]
  ELSE IF name \notin DOMAIN schemas
    THEN [threw |-> TRUE, exc |-> SchemaNotDefined, value |-> d]
  ELSE LET r == JoiObjectValidate(schemas[name], d, JoiPrefs)
       IN IF Len(r.errors) > 0
            THEN [threw |-> TRUE, value |-> d,
                  exc |-> ValidationException([i \in 1..Len(r.errors) |-> Message(r.errors[i])])]
            ELSE [threw |-> FALSE, exc |-> Pending, value |-> r.value]

\* The Validator that EtimsClient imports.  Its preferences name the texts
\* of four error types, which changes no error type; its messages are
\* error.details.map(d => d.message), the message standing for the path it
\* names and its error type.
JoiPrefsEtimsClient == [abortEarly |-> FALSE, allowUnknown |-> FALSE, convert |-> TRUE]
MessageEtimsClient(d) == [key |-> d.path, text |-> d.type]
ValidatorValidateEtimsClient(d, name) ==
  IF name \in ObjectPrototypeKeys
    THEN [threw |-> TRUE, exc |-> TypeError, value |-> d]
  ELSE IF name \notin DOMAIN schemasEtimsClient
    THEN [threw |-> TRUE, exc |-> SchemaNotDefined, value |-> d]
  ELSE LET r == JoiObjectValidate(schemasEtimsClient[name], d, JoiPrefsEtimsClient)
       IN IF Len(r.errors) > 0
            THEN [threw |-> TRUE, value |-> d,
                  exc |-> ValidationException(
                            [i \in 1..Len(r.errors) |-> MessageEtimsClient(r.errors[i])])]
            ELSE [threw |-> FALSE, exc |-> Pending, value |-> r.value]

(***************************************************************************)
(* EtimsOClient: every endpoint method is                                  *)
(*   return this.post(key, this.validate(data, schema)).                   *)
(***************************************************************************)
ApiMethod(k, name) == [key |-> k, schema |-> name]
EtimsOClientMethods ==
  [ selectInitOsdcInfo |-> ApiMethod("selectInitOsdcInfo", "initialization"),
    selectCodeList |-> ApiMethod("selectCodeList", "lastReqOnly"),
    selectCustomer |-> ApiMethod("selectCustomer", "selectCustomer"),
    selectBranches |-> ApiMethod("selectBhfList", "lastReqOnly"),
    saveBranchCustomer |-> ApiMethod("saveBhfCustomer", "saveBhfCustomer"),
    saveBranchUser |-> ApiMethod("saveBhfUser", "saveBhfUser"),
    saveBranchInsurance |-> ApiMethod("saveBhfInsurance", "saveBhfInsurance"),
    selectItemClasses |-> ApiMethod("selectItemClsList", "lastReqOnly"),
    selectItems |-> ApiMethod("selectItemList", "lastReqOnly"),
    saveItem |-> ApiMethod("saveItem", "saveItem"),
    saveItemComposition |-> ApiMethod("saveItemComposition", "saveItemComposition"),
    selectImportedItems |-> ApiMethod("selectImportItemList", "lastReqOnly"),
    updateImportedItem |-> ApiMethod("updateImportItem", "updateImportItem"),
    selectPurchases |-> ApiMethod("selectTrnsPurchaseSalesList", "lastReqOnly"),
    savePurchase |-> ApiMethod("insertTrnsPurchase", "insertTrnsPurchase"),
    saveSalesTransaction |-> ApiMethod("saveTrnsSalesOsdc", "saveTrnsSalesOsdc"),
    selectStockMovement |-> ApiMethod("selectStockMoveList", "lastReqOnly"),
    saveStockIO |-> ApiMethod("insertStockIO", "insertStockIO"),
    saveStockMaster |-> ApiMethod("saveStockMaster", "saveStockMaster"),
    selectNoticeList |-> ApiMethod("selectNoticeList", "lastReqOnly") ]

(***************************************************************************)
(* The state machine.                                                      *)
(***************************************************************************)
\* An OscuConfig: credentials says that the consumer key and secret of the
\* selected environment are set; http is http?.timeout, in seconds.
EnvConfig(env, timeout, credentials) ==
  [env |-> env, http |-> timeout, credentials |-> credentials,
   auth |-> [sbx |-> "sbxKey:sbxSecret", prod |-> "prodKey:prodSecret"],
   tin |-> "P000000001", bhf_id |-> "00", cmc_key |-> Some("CMC-KEY")]
Config(credentials) == EnvConfig("sbx", None, credentials)
Configs == { Config(c) : c \in BOOLEAN }

\* The cache file found at start: none, an unreadable one, or an entry left
\* by an earlier run that expires at second 1.
InitialFiles == { NoFile, CorruptFile, JsonFile(TokenCache("tokOld", 1)) }

NoRemote == Remote("none", 0, Body("empty", EmptyJson))
\* The locals of one concurrent getToken(true): tokenData.access_token,
\* expiresAt, and the value returned.
Callers == 1..NumCallers
Caller(at, issued, expires, result) ==
  [pc |-> at, issued |-> issued, expires |-> expires, result |-> result]
NotCalling == Caller("start", None, 0, None)
NoReply == TokenReply("none", 0, TokenBody(None, None, None, None))

\* The caller-local state of an operation that has not started.
CallReset ==
  /\ op' = "none"
  /\ method' = "GET"
  /\ key' = ""
  /\ data' = EmptyObject
  /\ apiMethod' = ""
  /\ input' = EmptyObject
  /\ schemaName' = ""
  /\ force' = FALSE
  /\ endpoint' = Undefined
  /\ headers' = NoHeaders
  /\ response' = NoResponse
  /\ remote' = NoRemote
  /\ outcome' = Pending
  /\ exit' = ""
  /\ sent' = <<>>
  /\ authCalls' = 0
  /\ authSent' = <<>>
  /\ firstSignal' = FALSE
  /\ cacheTouched' = FALSE
  /\ authReply' = NoReply
  /\ log' = <<>>
  /\ found' = ""

Init ==
  /\ cfg \in Configs
  /\ cache \in InitialFiles
  /\ now = 0
  /\ pc = "idle"
  /\ op = "none"
  /\ method = "GET"
  /\ key = ""
  /\ data = EmptyObject
  /\ apiMethod = ""
  /\ input = EmptyObject
  /\ schemaName = ""
  /\ force = FALSE
  /\ endpoint = Undefined
  /\ headers = NoHeaders
  /\ response = NoResponse
  /\ remote = NoRemote
  /\ outcome = Pending
  /\ exit = ""
  /\ sent = <<>>
  /\ authCalls = 0
  /\ authSent = <<>>
  /\ client = "EtimsOClient"
  /\ written = None
  /\ firstSignal = FALSE
  /\ cacheTouched = FALSE
  /\ recorded = FALSE
  /\ authReply = NoReply
  /\ log = <<>>
  /\ found = ""
  /\ sinceClear = "none"
  /\ callers = [c \in Callers |-> NotCalling]
  /\ fileBytes = <<>>

\* What the claims call a token-expiry signal, read off the remote's answer.
ExpirySignal(ro) ==
  /\ ro.kind = "http"
  /\ \/ ro.status = 401
     \/ /\ ro.body.fmt = "json"
        /\ IsSome(ro.body.json.fault)
        /\ Get(ro.body.json.fault) \in { "Access Token expired", "Invalid Token" }

\* The cache file and its history after an AuthOClient call.
AuthEffect(step) ==
  /\ cache' = step.file
  /\ authCalls' = authCalls + step.calls
  /\ authSent' = authSent \o (IF step.calls > 0 THEN <<AuthRequest(cfg)>> ELSE <<>>)
  /\ cacheTouched' = (cacheTouched \/ step.wrote)
  /\ recorded' = IF step.wrote THEN step.file.kind = "json" ELSE recorded

\* The history of an operation after a getToken that the authorization
\* endpoint would answer with reply: "fetch" records that fetchToken ran,
\* "write" that the cache file was written.
GetTokenHistory(step, reply) ==
  /\ authReply' = (IF step.calls > 0 THEN reply ELSE authReply)
  /\ log' = log \o (IF step.threw \/ step.wrote THEN <<"fetch">> ELSE <<>>)
                \o (IF step.wrote THEN <<"write">> ELSE <<>>)
  /\ found' = (IF cache.kind # "json" THEN cache.kind
                ELSE IF now < cache.entry.expires_at * TicksPerSec THEN "fresh"
                ELSE "stale")
  /\ sinceClear' = (IF ~step.wrote THEN sinceClear
                     ELSE IF sinceClear = "cleared" THEN "refetched"
                     ELSE "none")

\* The history of an operation after a clearToken.
ClearTokenHistory ==
  /\ log' = Append(log, "clear")
  /\ sinceClear' = "cleared"
  /\ UNCHANGED <<authReply, found>>

\* send(method, endpointKey, data), line 69: const endpoint = this.endpoint(endpointKey)
SendStart(m, k, d) ==
  /\ pc = "idle"
  /\ op' = "send" /\ method' = m /\ key' = k /\ data' = d
  /\ LET e == Endpoint(k)
     IN /\ endpoint' = e.value
        /\ IF e.threw
             THEN pc' = "done" /\ outcome' = e.exc /\ exit' = "endpoint"
             ELSE pc' = "hdr1" /\ outcome' = Pending /\ exit' = ""
  /\ UNCHANGED <<cfg, cache, now, force, headers, response, remote, sent, authCalls,
                 authSent, firstSignal, cacheTouched, recorded, authReply, log, found,
                 sinceClear>>
  /\ UNCHANGED <<apiMethod, input, schemaName, callers, fileBytes, client, written>>

\* An endpoint method of EtimsOClient, data being its argument: the
\* argument of this.post is evaluated first, so validate runs, and may
\* throw, before send is entered.
CallEndpoint(m, d) ==
  /\ pc = "idle"
  /\ apiMethod' = m /\ input' = d /\ schemaName' = EtimsOClientMethods[m].schema
  /\ LET v == ValidatorValidate(d, EtimsOClientMethods[m].schema)
         k == EtimsOClientMethods[m].key
         e == Endpoint(k)
     IN IF v.threw
          THEN /\ op' = "validate" /\ pc' = "done" /\ outcome' = v.exc /\ exit' = "validate"
               /\ UNCHANGED <<method, key, data, endpoint>>
          ELSE /\ op' = "send" /\ method' = "POST" /\ key' = k /\ data' = v.value
               /\ endpoint' = e.value
               /\ IF e.threw
                    THEN pc' = "done" /\ outcome' = e.exc /\ exit' = "endpoint"
                    ELSE pc' = "hdr1" /\ outcome' = Pending /\ exit' = ""
  /\ UNCHANGED <<cfg, cache, now, force, headers, response, remote, sent, authCalls,
                 authSent, firstSignal, cacheTouched, recorded, authReply, log, found,
                 sinceClear, callers, fileBytes, client, written>>

\* request, up to the axios call: the URL, then buildHeaders, which awaits
\* getToken() and then reads endpoint.endsWith.
BuildHeaders(reply) ==
  /\ pc \in {"hdr1", "hdr2"}
  /\ LET step == GetToken(cfg, cache, now, FALSE, reply)
     IN /\ AuthEffect(step)
        /\ GetTokenHistory(step, reply)
        /\ IF step.threw
             THEN /\ pc' = "done" /\ outcome' = step.result /\ headers' = headers
                  /\ exit' = "headers"
           ELSE IF endpoint.type # "string"
             THEN /\ pc' = "done" /\ outcome' = TypeError /\ headers' = headers
                  /\ exit' = "headers"
           ELSE /\ pc' = (IF pc = "hdr1" THEN "dispatch1" ELSE "dispatch2")
                /\ outcome' = outcome /\ exit' = exit
                /\ headers' = HeadersFor(cfg, endpoint.str, Get(step.result.token))
  /\ UNCHANGED <<cfg, now, op, method, key, data, force, endpoint, response, remote,
                 sent, firstSignal>>
  /\ UNCHANGED <<apiMethod, input, schemaName, callers, fileBytes, client, written>>

\* request, the axios call and what follows it; then, back in send, the
\* isTokenExpired test after the first request and unwrap after the last.
Dispatch(ro) ==
  /\ pc \in {"dispatch1", "dispatch2"}
  /\ sent' = Append(sent, [method |-> method, path |-> endpoint.str,
                           query |-> QueryOf(method, data), body |-> BodyOf(method, data),
                           headers |-> headers, baseUrl |-> BaseUrl(cfg),
                           timeout |-> Timeout(cfg)])
  /\ remote' = ro
  /\ firstSignal' = (IF pc = "dispatch1" THEN ExpirySignal(ro) ELSE firstSignal)
  /\ LET r == Request(ro)
     IN IF r.threw
          THEN /\ pc' = "done" /\ outcome' = r.exc /\ response' = response
               /\ exit' = "request"
        ELSE IF pc = "dispatch1" /\ IsTokenExpired(r.response)
          THEN /\ pc' = "clear" /\ outcome' = outcome /\ response' = r.response
               /\ exit' = exit
        ELSE /\ pc' = "done" /\ outcome' = Unwrap(r.response) /\ response' = r.response
             /\ exit' = "unwrap"
  /\ log' = Append(log, "dispatch")
  /\ UNCHANGED <<cfg, cache, now, op, method, key, data, force, endpoint, headers,
                 authCalls, authSent, cacheTouched, recorded, authReply, found, sinceClear>>
  /\ UNCHANGED <<apiMethod, input, schemaName, callers, fileBytes, client, written>>

\* send, line 73: await this.auth.clearToken()
SendClearToken ==
  /\ pc = "clear"
  /\ AuthEffect(ClearToken(cache))
  /\ ClearTokenHistory
  /\ pc' = "refresh"
  /\ UNCHANGED <<cfg, now, op, method, key, data, force, endpoint, headers, response,
                 remote, outcome, exit, sent, firstSignal>>
  /\ UNCHANGED <<apiMethod, input, schemaName, callers, fileBytes, client, written>>

\* send, line 74: await this.auth.getToken(true)
SendForceRefresh(reply) ==
  /\ pc = "refresh"
  /\ LET step == GetToken(cfg, cache, now, TRUE, reply)
     IN /\ AuthEffect(step)
        /\ GetTokenHistory(step, reply)
        /\ IF step.threw
             THEN pc' = "done" /\ outcome' = step.result /\ exit' = "refresh"
             ELSE pc' = "hdr2" /\ outcome' = outcome /\ exit' = exit
  /\ UNCHANGED <<cfg, now, op, method, key, data, force, endpoint, headers, response,
                 remote, sent, firstSignal>>
  /\ UNCHANGED <<apiMethod, input, schemaName, callers, fileBytes, client, written>>

\* The caller calls auth.getToken(forceRefresh) itself.
CallGetToken(forceRefresh, reply) ==
  /\ pc = "idle"
  /\ op' = "getToken" /\ force' = forceRefresh
  /\ LET step == GetToken(cfg, cache, now, forceRefresh, reply)
     IN AuthEffect(step) /\ GetTokenHistory(step, reply) /\ outcome' = step.result
  /\ pc' = "done" /\ exit' = "auth"
  /\ UNCHANGED <<cfg, now, method, key, data, endpoint, headers, response, remote,
                 sent, firstSignal>>
  /\ UNCHANGED <<apiMethod, input, schemaName, callers, fileBytes, client, written>>

\* The caller calls auth.clearToken() itself.
CallClearToken ==
  /\ pc = "idle"
  /\ op' = "clearToken"
  /\ LET step == ClearToken(cache)
     IN AuthEffect(step) /\ ClearTokenHistory /\ outcome' = step.result
  /\ pc' = "done" /\ exit' = "auth"
  /\ UNCHANGED <<cfg, now, method, key, data, force, endpoint, headers, response,
                 remote, sent, firstSignal>>
  /\ UNCHANGED <<apiMethod, input, schemaName, callers, fileBytes, client, written>>

\* The operation's promise settles and the caller is free to start another.
Return ==
  /\ pc = "done"
  /\ pc' = "idle"
  /\ CallReset
  /\ sinceClear' = (IF sinceClear = "refetched" THEN "none" ELSE sinceClear)
  /\ UNCHANGED <<cfg, cache, now, recorded, callers, fileBytes, client, written>>

\* Time passes.  The clock is read only by getToken, so a tick taken at any
\* other position of the caller has the effect of one taken at the next
\* position where getToken is about to run: only those are modelled.
Tick ==
  /\ now < MaxNow
  /\ pc \in {"idle", "refresh", "hdr2"}
  /\ now' = now + 1
  /\ UNCHANGED <<cfg, cache, pc, op, method, key, data, force, endpoint, headers,
                 response, remote, outcome, exit, sent, authCalls, authSent, firstSignal,
                 cacheTouched, recorded, authReply, log, found, sinceClear>>
  /\ UNCHANGED <<apiMethod, input, schemaName, callers, fileBytes, client, written>>
Next ==
  \/ \E c \in SendCalls : SendStart(c.method, c.key, c.data)
  \/ \E c \in MethodCalls : CallEndpoint(c.name, c.data)
  \/ \E reply \in TokenOutcomes : BuildHeaders(reply)
  \/ \E ro \in RemoteOutcomes : Dispatch(ro)
  \/ SendClearToken
  \/ \E reply \in TokenOutcomes : SendForceRefresh(reply)
  \/ \E f \in BOOLEAN, reply \in TokenOutcomes : CallGetToken(f, reply)
  \/ CallClearToken
  \/ Return
  \/ Tick

Spec == Init /\ [][Next]_vars

(***************************************************************************)
(* The claims.                                                             *)
(***************************************************************************)
IsError(o) == o.kind \notin {"return", "pending"}
SendDone == pc = "done" /\ op = "send"
\* The last answer of the remote was an HTTP response and the call ended on
\* it: in request, or in unwrap.
FinalResponse == SendDone /\ remote.kind = "http" /\ exit \in {"request", "unwrap"}
FinalCode == remote.body.json.resultCd
SuccessSet == { <<0,0,0>>, <<0,0,1>> }
Is2xx(status) == status >= 200 /\ status < 300

\* C1: one call of send dispatches at most twice, dispatches a second time
\* only when the first response was a token-expiry signal, and when both
\* responses are expiry signals it ends after the second dispatch by raising
\* an error.
C1_RetryOnce ==
  /\ Len(sent) <= 2
  /\ Len(sent) = 2 => firstSignal
  /\ (op = "send" /\ Len(sent) = 2 /\ firstSignal /\ ExpirySignal(remote))
       => (pc = "done" /\ IsError(outcome))

\* C2: when the response to the retry dispatch is again a token-expiry
\* signal, the call raises AuthenticationException.
C2_SecondExpiryIsAuthError ==
  (op = "send" /\ Len(sent) = 2 /\ ExpirySignal(remote))
    => (pc = "done" /\ outcome.kind = "AuthenticationException")

\* C3: whenever the response that is unwrapped has status 401, the call
\* raises AuthenticationException with statusCode 401, whatever the body.
C3_UnauthorizedAlwaysAuthError ==
  (SendDone /\ exit = "unwrap" /\ remote.status = 401)
    => (outcome.kind = "AuthenticationException" /\ outcome.statusCode = 401)

C3_Witness ==
  /\ SendDone /\ exit = "unwrap" /\ remote.status = 401
  /\ FinalCode = Some(SuccessProbe)
  /\ outcome.kind = "AuthenticationException"

\* What C4 promises of the raised exception.
CarriesBusinessError ==
  /\ outcome.kind = "ApiException"
  /\ outcome.errorCode = FinalCode
  /\ IsSome(remote.body.json.resultMsg) => outcome.message.text = remote.body.json.resultMsg
  /\ outcome.details = Some(remote.body.json)

C5_SuccessReturnsBody ==
  (FinalResponse /\ Is2xx(remote.status) /\ remote.body.fmt \in {"json", "empty"}
     /\ (~IsSome(FinalCode) \/ Get(FinalCode) \in SuccessSet))
    => outcome = ReturnJson(remote.body.json)

C5_Witness ==
  /\ FinalResponse /\ remote.status = 200 /\ remote.body.fmt = "json"
  /\ FinalCode = Some(<<0,0,1>>) /\ IsSome(remote.body.json.resultMsg)
  /\ outcome.kind = "return"

\* C6: a non-success result code in a 2xx response is classified by its
\* numeric value: 891..899 gives statusCode 400, 900 or above gives 500,
\* every other code gives 400.
C6_NumericRanges ==
  (FinalResponse /\ Is2xx(remote.status) /\ remote.body.fmt = "json"
     /\ IsSome(FinalCode) /\ Get(FinalCode) # <<>> /\ Get(FinalCode) \notin SuccessSet)
    => /\ outcome.kind = "ApiException"
       /\ outcome.statusCode =
            (IF NumVal(Get(FinalCode)) >= 891 /\ NumVal(Get(FinalCode)) <= 899 THEN 400
             ELSE IF NumVal(Get(FinalCode)) >= 900 THEN 500
             ELSE 400)

\* C7: when the final response has a status outside [200,300) other than
\* 401, the call raises ApiException whose statusCode is that status.
C7_HttpErrorCarriesStatus ==
  (FinalResponse /\ ~Is2xx(remote.status) /\ remote.status # 401)
    => (outcome.kind = "ApiException" /\ outcome.statusCode = remote.status)

\* C8: every call of send (here: with an endpoint key of the table) resolves
\* to a value or raises one of ValidationException, AuthenticationException,
\* ApiException, whatever the remote answers.
C8_OnlyThreeErrorKinds ==
  (SendDone /\ key \in DOMAIN endpoints) => outcome.kind \in {"return", "ValidationException",
                                "AuthenticationException", "ApiException"}

\* C9: an endpoint key that is not in the endpoint table, or that starts
\* with '/', makes send raise with no authorization call, no dispatch and
\* the token cache left alone.
C9_BadKeyNoNetwork ==
  (SendDone /\ (key \notin DOMAIN endpoints \/ key \in PathLikeKeys))
    => /\ IsError(outcome)
       /\ authCalls = 0
       /\ Len(sent) = 0
       /\ ~cacheTouched

\* A step in which getToken() runs without forceRefresh: called by the
\* caller, or by buildHeaders.
PlainGetTokenStep ==
  \/ pc = "idle" /\ pc' = "done" /\ op' = "getToken" /\ ~force'
  \/ pc \in {"hdr1", "hdr2"} /\ pc' # pc

\* C10: with an entry (T, E) recorded by getToken in the cache, a getToken()
\* without forceRefresh made while now < E returns T and makes no
\* authorization call; one made when now >= E makes exactly one.
C10_Freshness ==
  [][ (PlainGetTokenStep /\ recorded /\ cache.kind = "json")
        => IF now < cache.entry.expires_at * TicksPerSec
             THEN /\ authCalls' = authCalls
                  /\ cache' = cache
                  /\ op' = "getToken" => outcome' = ReturnToken(cache.entry.access_token)
                  /\ pc' \in {"dispatch1", "dispatch2"}
                       => headers'.Authorization = cache.entry.access_token
             ELSE authCalls' = authCalls + 1 ]_vars

C10_Witness ==
  /\ pc = "done" /\ op = "getToken" /\ ~force
  /\ recorded /\ cache.kind = "json" /\ now > 0
  /\ authCalls = 0
  /\ outcome = ReturnToken(cache.entry.access_token)

(***************************************************************************)
(* The token cache and the retry: C11 to C16 and C18.                      *)
(***************************************************************************)
\* The step wrote the cache file.
WroteEntry == Len(log') > Len(log) /\ log'[Len(log')] = "write"
\* The cache file after the step holds what the authorization endpoint
\* answered in it: its token, and its lifetime counted from the second of
\* the write, less 60.
EntryOfThisFetch ==
  /\ cache'.kind = "json"
  /\ cache'.entry.access_token = Get(authReply'.body.access_token)
  /\ IsSome(authReply'.body.expires_in)
       => cache'.entry.expires_at
            = (now \div TicksPerSec) + Get(authReply'.body.expires_in) - 60
\* A getToken step handed its caller a token: the direct call returned, or
\* buildHeaders went on to the dispatch, or send went on to the retry.
HandedToken(t) ==
  /\ op' = "getToken" => outcome' = ReturnToken(t)
  /\ pc' \in {"dispatch1", "dispatch2"} => headers'.Authorization = t
GetTokenReturned == pc' \in {"dispatch1", "dispatch2", "hdr2"} \/ outcome'.kind = "return"

\* C11: every cache entry getToken writes holds the token just fetched and
\* expires_at = (second of the write) + (reported lifetime) - 60; a
\* getToken() that finds no cache file makes one authorization call (none
\* only when no credentials are configured) and, when it returns, has
\* written such an entry and returns its token.
C11_WrittenEntry ==
  [][ /\ WroteEntry => EntryOfThisFetch
      /\ (PlainGetTokenStep /\ cache.kind = "absent")
           => /\ authCalls' = authCalls + (IF cfg.credentials THEN 1 ELSE 0)
              /\ GetTokenReturned
                   => /\ authCalls' = authCalls + 1
                      /\ WroteEntry /\ EntryOfThisFetch
                      /\ HandedToken(cache'.entry.access_token) ]_vars

C11_Witness ==
  /\ pc = "done" /\ op = "getToken" /\ ~force /\ found = "absent"
  /\ authCalls = 1 /\ log = <<"fetch", "write">>
  /\ now >= TicksPerSec
  /\ IsSome(authReply.body.expires_in)
  /\ cache = JsonFile(TokenCache(Get(outcome.token),
                                 (now \div TicksPerSec) + Get(authReply.body.expires_in) - 60))

ForcedGetTokenStep ==
  \/ pc = "idle" /\ pc' = "done" /\ op' = "getToken" /\ force'
  \/ pc = "refresh" /\ pc' # pc

\* C12: getToken(true) never uses the cached token: whatever the cache
\* holds it makes one authorization call (none only when no credentials are
\* configured) and, when it returns, has overwritten the cache with the
\* token just fetched and its expiry, and returns that token.
C12_ForceIgnoresCache ==
  [][ ForcedGetTokenStep
        => /\ authCalls' = authCalls + (IF cfg.credentials THEN 1 ELSE 0)
           /\ GetTokenReturned
                => /\ authCalls' = authCalls + 1
                   /\ WroteEntry /\ EntryOfThisFetch
                   /\ HandedToken(Get(authReply'.body.access_token)) ]_vars

C12_Witness ==
  /\ pc = "done" /\ op = "getToken" /\ force /\ found = "fresh"
  /\ authCalls = 1 /\ log = <<"fetch", "write">>
  /\ outcome = ReturnToken(Get(authReply.body.access_token))
  /\ cache.kind = "json" /\ cache.entry.access_token = Get(outcome.token)

\* C13: a getToken whose token fetch fails raises an AuthenticationException
\* that carries the upstream message and the upstream HTTP status.
C13_FetchFailureIsAuthError ==
  (pc = "done" /\ op = "getToken" /\ IsError(outcome) /\ authCalls > 0)
    => /\ outcome.kind = "AuthenticationException"
       /\ authReply.kind = "response" => outcome.statusCode = authReply.status
       /\ IsSome(authReply.body.errorMessage)
            => outcome.message.text = authReply.body.errorMessage

\* C14: after clearToken the next getToken() does not return without an
\* authorization call: it makes one (none only when no credentials are
\* configured) and, when it returns, returns the token of that call.
C14_ClearForcesRefetch ==
  [][ (PlainGetTokenStep /\ sinceClear = "cleared")
        => /\ authCalls' = authCalls + (IF cfg.credentials THEN 1 ELSE 0)
           /\ GetTokenReturned
                => /\ authCalls' = authCalls + 1
                   /\ HandedToken(Get(authReply'.body.access_token)) ]_vars

C14_Witness ==
  /\ pc = "done" /\ op = "getToken" /\ ~force /\ sinceClear = "refetched"
  /\ authCalls = 1
  /\ outcome = ReturnToken(Get(authReply.body.access_token))

\* The position in log of the first dispatch of the call.
FirstDispatch ==
  CHOOSE i \in 1..Len(log) :
    log[i] = "dispatch" /\ \A j \in 1..(i - 1) : log[j] # "dispatch"

\* C15: when the first response of a send is a token-expiry signal, the call
\* first removes the cached token, then runs a forced fetch, then dispatches
\* again; when the forced fetch fails the call raises and the cache file
\* holds no token.
C15_ExpiryOrder ==
  (SendDone /\ firstSignal)
    => LET i == FirstDispatch
       IN /\ Len(log) >= i + 2
          /\ log[i + 1] = "clear"
          /\ log[i + 2] = "fetch"
          /\ Len(sent) = 2 => (log[i + 3] = "write" /\ log[Len(log)] = "dispatch")
          /\ Len(sent) = 1 => IsError(outcome)
          /\ exit = "refresh" => cache.kind = "absent"

\* C16: every request handed to axios carries the token getToken returned to
\* that attempt's buildHeaders (the token the cache file holds from then to
\* the end of the attempt); one to /selectInitOsdcInfo carries none of tin,
\* bhfId, cmcKey, and one to any other endpoint carries the three values of
\* the configuration.
C16_Headers ==
  /\ \A i \in 1..Len(sent) :
       LET h == sent[i].headers
       IN IF sent[i].path = "/selectInitOsdcInfo"
            THEN h.tin = None /\ h.bhfId = None /\ h.cmcKey = None
            ELSE h.tin = Some(cfg.tin) /\ h.bhfId = Some(cfg.bhf_id) /\ h.cmcKey = cfg.cmc_key
  /\ pc \in {"dispatch1", "dispatch2"}
       => cache.kind = "json" /\ headers.Authorization = cache.entry.access_token
  /\ (Len(sent) > 0 /\ (pc = "clear" \/ (pc = "done" /\ exit \in {"request", "unwrap"})))
       => /\ cache.kind = "json"
          /\ sent[Len(sent)].headers.Authorization = cache.entry.access_token

C16_Witness ==
  /\ SendDone /\ Len(sent) = 2
  /\ sent[1].path = "/saveItem"
  /\ sent[1].headers.Authorization # sent[2].headers.Authorization
  /\ sent[2].headers.tin = Some(cfg.tin)

\* C18: a dispatch that ends without an HTTP response ends the call: send
\* raises ApiException(500) with that dispatch as its last step, and when it
\* was the first dispatch the call made one dispatch, removed no token and
\* ran no forced refresh.
C18_TransportFailureNotRetried ==
  (op = "send" /\ Len(sent) > 0 /\ remote.kind = "none")
    => /\ pc = "done"
       /\ outcome.kind = "ApiException" /\ outcome.statusCode = 500
       /\ log[Len(log)] = "dispatch"
       /\ Len(sent) = 1
            => /\ \A i \in 1..Len(log) : log[i] # "clear"
               /\ pc # "refresh" /\ exit = "request"

C18_Witness ==
  /\ SendDone /\ Len(sent) = 1 /\ remote.kind = "none"
  /\ outcome.kind = "ApiException"
  /\ cache.kind = "json"

(***************************************************************************)
(* Validator.validate on its own: the payloads and schema names it is      *)
(* called with, and the specification that applies it to each.             *)
(***************************************************************************)
\* A property that may be left out.
Opt(k, values) == { <<>> } \cup { <<Prop(k, v)>> : v \in values }
\* Values tried for a string key with max(n): a valid one, "", one of n + 1
\* characters, and a number.
StringValues(n) == { VStr(Chars("a", 3)), VStr(<<>>), VStr(Chars("a", n + 1)), VNum(7) }
\* Properties no schema declares, put before and after the declared ones.
ExtraBefore == { <<>>, <<Prop("extra", VStr(Chars("x", 1)))>> }
ExtraAfter == { <<>>, <<Prop("other", VNum(1))>> }
\* A string property of n characters c, and a number property.
StrProp(k, c, n) == Prop(k, VStr(Chars(c, n)))
NumProp(k, n) == Prop(k, VNum(n))
\* The 15 tax fields of a sale with modrId and modrNm.
TaxBreakdown ==
  << NumProp("taxblAmtA", 0), NumProp("taxblAmtB", 0), NumProp("taxblAmtC", 81000),
     NumProp("taxblAmtD", 0), NumProp("taxblAmtE", 0),
     NumProp("taxRtA", 0), NumProp("taxRtB", 0), NumProp("taxRtC", 0),
     NumProp("taxRtD", 0), NumProp("taxRtE", 0),
     NumProp("taxAmtA", 0), NumProp("taxAmtB", 0), NumProp("taxAmtC", 0),
     NumProp("taxAmtD", 0), NumProp("taxAmtE", 0),
     StrProp("modrId", "A", 5), StrProp("modrNm", "A", 5) >>
\* A payload of saveTrnsSalesOsdc that is valid but for its trdInvcNo, the
\* properties added to it, to its receipt, and its items.
SaleItem(more) ==
  VObj(<< NumProp("itemSeq", 1), StrProp("itemCd", "K", 15), StrProp("itemNm", "B", 7),
          StrProp("pkgUnitCd", "N", 2), NumProp("pkg", 1), StrProp("qtyUnitCd", "B", 2),
          NumProp("qty", 90), NumProp("prc", 1000), NumProp("splyAmt", 81000),
          NumProp("dcRt", 0), NumProp("dcAmt", 0), Prop("taxTyCd", VStr(<<"C">>)),
          NumProp("taxblAmt", 81000), NumProp("taxAmt", 0), NumProp("totAmt", 81000) >> \o more)
SalePayload(trdInvcNo, more, receiptMore, items) ==
  << StrProp("tin", "P", 11), StrProp("bhfId", "0", 2), StrProp("cmcKey", "k", 8),
     Prop("trdInvcNo", trdInvcNo), NumProp("invcNo", 1), NumProp("orgInvcNo", 0),
     StrProp("rcptTyCd", "S", 1), StrProp("salesSttsCd", "0", 2),
     StrProp("cfmDt", "2", 14), StrProp("salesDt", "2", 8), NumProp("totItemCnt", 1),
     NumProp("totTaxblAmt", 81000), NumProp("totTaxAmt", 0), NumProp("totAmt", 81000),
     Prop("prchrAcptcYn", VStr(<<"N">>)), StrProp("regrId", "A", 5), StrProp("regrNm", "A", 5),
     Prop("receipt", VObj(<< StrProp("rcptPbctDt", "2", 14),
                             Prop("prchrAcptcYn", VStr(<<"N">>)) >> \o receiptMore)),
     Prop("itemList", VArr(items)) >> \o TaxBreakdown \o more
\* A payload of salesTransaction that is valid but for its invcNo, the
\* properties added to it, and its items; an item with its taxTyCd.
TransactionItem(taxTyCd, more) ==
  VObj(<< NumProp("itemSeq", 1), StrProp("itemCd", "K", 15), StrProp("itemClsCd", "1", 10),
          StrProp("itemNm", "B", 7), NumProp("qty", 90), NumProp("prc", 1000),
          NumProp("splyAmt", 81000), Prop("taxTyCd", VStr(<<taxTyCd>>)),
          NumProp("taxblAmt", 81000), NumProp("taxAmt", 0), NumProp("totAmt", 81000) >> \o more)
SalesTransactionPayload(invcNo, more, items) ==
  << Prop("invcNo", invcNo), StrProp("custTin", "A", 11), StrProp("custNm", "T", 4),
     Prop("salesTyCd", VStr(<<"N">>)), Prop("rcptTyCd", VStr(<<"R">>)),
     Prop("pmtTyCd", VStr(<<"0", "1">>)), Prop("salesSttsCd", VStr(<<"0", "1">>)),
     StrProp("cfmDt", "2", 14), StrProp("salesDt", "2", 8), NumProp("totItemCnt", 1),
     NumProp("totTaxblAmt", 81000), NumProp("totTaxAmt", 0), NumProp("totAmt", 81000),
     StrProp("regrId", "A", 5), StrProp("regrNm", "A", 5),
     Prop("itemList", VArr(items)) >> \o more
\* The fields of an item of the documented sale that salesTransaction does
\* not list.
ItemBreakdown ==
  << Prop("barCd", VStr(<<>>)), StrProp("pkgUnitCd", "N", 2), NumProp("pkg", 1),
     StrProp("qtyUnitCd", "B", 2), NumProp("dcRt", 0), NumProp("dcAmt", 0) >>
INV001 == VStr(<<"I", "N", "V", "0", "0", "1">>)
\* Payloads handed over with a schema name that is not defined.
AnyData == { EmptyObject, InitPayload, <<Prop("extra", VStr(Chars("x", 1)))>> }
Case(name, d) == [client |-> "EtimsOClient", name |-> name, data |-> d]
CaseEtimsClient(name, d) == [client |-> "EtimsClient", name |-> name, data |-> d]
ValidatorCases ==
     { Case("initialization", Flatten(<<x, a, b, c, y>>)) :
         x \in ExtraBefore, a \in Opt("tin", StringValues(20)),
         b \in Opt("bhfId", StringValues(10)), c \in Opt("dvcSrlNo", StringValues(50)),
         y \in ExtraAfter }
  \cup { Case("lastReqOnly", Flatten(<<x, a, y>>)) :
         x \in ExtraBefore, y \in ExtraAfter,
         a \in Opt("lastReqDt", { VStr(Chars("2", 14)), VStr(Chars("2", 13)),
                                  VStr(Chars("a", 14)), VNum(2) }) }
  \cup { Case("saveBhfInsurance",
              Flatten(<< a, <<Prop("isrccNm", VStr(Chars("a", 3)))>>, b, c,
                         <<Prop("regrId", VStr(Chars("a", 3)))>>,
                         <<Prop("regrNm", VStr(Chars("a", 3)))>>, e, y >>)) :
         a \in Opt("isrccCd", { VStr(Chars("a", 3)) }),
         b \in Opt("isrcRt", { VNum(5), VNum(-1), VStr(Chars("5", 2)), VStr(Chars("a", 1)) }),
         c \in Opt("useYn", { VStr(<<"Y">>), VStr(<<"X">>), VStr(<<>>), VNum(5) }),
         e \in Opt("modrId", { VStr(Chars("a", 3)), VStr(<<>>), VNull }),
         y \in ExtraAfter }
  \cup { Case("saveTrnsSalesOsdc", SalePayload(t, y, r, items)) :
         t \in { VStr(Chars("I", 3)), VNum(5), VNull, VStr(Chars("I", 51)) },
         y \in ExtraAfter, r \in ExtraAfter,
         items \in { <<>>, <<SaleItem(<<>>)>>, <<SaleItem(<<>>), SaleItem(<<NumProp("other", 1)>>)>>,
                     <<SaleItem(<<NumProp("other", 1)>>)>>, <<VNum(1)>> } }
  \cup { Case(name, d) : name \in {"noSuchSchema", "constructor"}, d \in AnyData }
  \cup { CaseEtimsClient("initialization", Flatten(<<x, a, <<StrProp("bhfId", "0", 2)>>, c>>)) :
         x \in ExtraBefore, a \in Opt("tin", StringValues(20)),
         c \in Opt("dvcSrlNo", StringValues(50)) }
  \cup { CaseEtimsClient("bhfList", Flatten(<<a, y>>)) :
         y \in ExtraAfter, a \in Opt("lastReqDt", { VStr(Chars("2", 14)), VNum(2) }) }
  \cup { CaseEtimsClient("salesTransaction", SalesTransactionPayload(n, y, items)) :
         n \in { VNum(1), INV001, VStr(Chars("7", 2)), VNum(0) },
         y \in ExtraAfter \cup {TaxBreakdown},
         items \in { <<>>, <<TransactionItem("C", <<>>)>>,
                     <<TransactionItem("C", <<>>), TransactionItem("C", <<NumProp("other", 1)>>)>>,
                     <<TransactionItem("F", <<>>)>>, <<TransactionItem("C", ItemBreakdown)>> } }
  \cup { CaseEtimsClient(name, d) : name \in {"purchaseTrns", "toString"}, d \in AnyData }

InitValidator ==
  /\ cfg = Config(TRUE)
  /\ cache = NoFile
  /\ now = 0
  /\ pc = "idle"
  /\ op = "none"
  /\ method = "GET"
  /\ key = ""
  /\ data = EmptyObject
  /\ apiMethod = ""
  /\ \E c \in ValidatorCases : input = c.data /\ schemaName = c.name /\ client = c.client
  /\ force = FALSE
  /\ endpoint = Undefined
  /\ headers = NoHeaders
  /\ response = NoResponse
  /\ remote = NoRemote
  /\ outcome = Pending
  /\ exit = ""
  /\ sent = <<>>
  /\ authCalls = 0
  /\ authSent = <<>>
  /\ written = None
  /\ firstSignal = FALSE
  /\ cacheTouched = FALSE
  /\ recorded = FALSE
  /\ authReply = NoReply
  /\ log = <<>>
  /\ found = ""
  /\ sinceClear = "none"
  /\ callers = [c \in Callers |-> NotCalling]
  /\ fileBytes = <<>>

\* validator.validate(input, schemaName)
ValidateCall ==
  /\ pc = "idle"
  /\ op' = "validate"
  /\ LET v == IF client = "EtimsClient"
                THEN ValidatorValidateEtimsClient(input, schemaName)
                ELSE ValidatorValidate(input, schemaName)
     IN outcome' = IF v.threw THEN v.exc ELSE ReturnJson(v.value)
  /\ pc' = "done" /\ exit' = "validate"
  /\ UNCHANGED <<cfg, cache, now, method, key, data, force, endpoint, headers, response,
                 remote, sent, authCalls, authSent, firstSignal, cacheTouched, recorded,
                 authReply, log, found, apiMethod, input, schemaName, sinceClear, callers,
                 fileBytes, client, written>>

\* validator.validate(value, schemaName) of the value the call before
\* returned, which data keeps.
ValidateAgain ==
  /\ pc = "done" /\ op = "validate" /\ outcome.kind = "return"
  /\ op' = "revalidate"
  /\ data' = Get(outcome.value)
  /\ LET v == IF client = "EtimsClient"
                THEN ValidatorValidateEtimsClient(data', schemaName)
                ELSE ValidatorValidate(data', schemaName)
     IN outcome' = IF v.threw THEN v.exc ELSE ReturnJson(v.value)
  /\ UNCHANGED <<cfg, cache, now, pc, exit, method, key, force, endpoint, headers, response,
                 remote, sent, authCalls, authSent, firstSignal, cacheTouched, recorded,
                 authReply, log, found, apiMethod, input, schemaName, sinceClear, callers,
                 fileBytes, client, written>>

NextValidator == ValidateCall \/ ValidateAgain

SpecValidator == InitValidator /\ [][NextValidator]_vars

(***************************************************************************)
(* Validation: C17 and C20.                                                *)
(***************************************************************************)
\* The constraints of a schema that a payload violates, each as <<key,
\* constraint>>: a required key that is missing, a key that is not declared,
\* and for a declared key that is present with a value its schema does not
\* list: the list of valid(), the type, and for a value of the type, being
\* non-empty and every rule of the schema.  A constraint that can only be
\* tested once another one holds (a length on a value that is no string) is
\* not counted with it.  An object value is tested key by key and an array
\* value item by item, each under its path; a value no schema of
\* alternatives accepts breaks one constraint.
RECURSIVE ConstraintsBroken(_, _, _)
RECURSIVE ViolationsAt(_, _, _)
ConstraintsBroken(schema, x, path) ==
  LET rules == { schema.rules[i] : i \in 1..Len(schema.rules) }
      numeric == x.t = "number" \/ (x.t = "string" /\ IsNumeric(x.s))
      n == IF x.t = "number" THEN x.n ELSE ToNumber(x.s)
      At(names) == { <<path, c>> : c \in names }
  IN IF x \in schema.valids THEN {}
     ELSE IF schema.type = "alternatives"
       THEN IF \E i \in 1..Len(schema.items) : ConstraintsBroken(schema.items[i], x, path) = {}
              THEN {} ELSE At({"alternatives"})
     ELSE IF schema.type = "object"
       THEN IF x.t # "object" THEN At({"type"}) ELSE ViolationsAt(schema.keys, x.c, path)
     ELSE IF schema.type = "array"
       THEN IF x.t # "array" THEN At({"type"})
            ELSE UNION { ConstraintsBroken(schema.items[1], x.c[i], Append(path, IndexSegment(i))) :
                         i \in 1..Len(x.c) }
                 \cup At({ r.name : r \in { q \in rules : q.name = "min" /\ Len(x.c) < q.limit } })
     ELSE At((IF schema.only THEN {"valid"} ELSE {})
             \cup (IF schema.type = "string"
                     THEN IF x.t # "string" THEN {"type"}
                          ELSE IF Len(x.s) = 0 THEN {"empty"}
                          ELSE { r.name : r \in { q \in rules :
                                   \/ q.name = "min" /\ Len(x.s) < q.limit
                                   \/ q.name = "max" /\ Len(x.s) > q.limit
                                   \/ q.name = "length" /\ Len(x.s) # q.limit
                                   \/ q.name = "pattern" /\ ~MatchesDigits(x.s, q.limit) } }
                     ELSE IF ~numeric THEN {"type"}
                          ELSE { r.name : r \in { q \in rules : q.name = "min" /\ n < q.limit } }))

ViolationsAt(schema, d, path) ==
  LET entries == { schema[i] : i \in 1..Len(schema) }
      declared == { e.k : e \in entries }
  IN { <<Append(path, e.k), "required">> : e \in { f \in entries :
                                f.schema.presence = "required" /\ f.k \notin Keys(d) } }
     \cup { <<Append(path, k), "declared">> : k \in Keys(d) \ declared }
     \cup UNION { ConstraintsBroken(e.schema, ValueOf(d, e.k), Append(path, e.k)) :
                  e \in { f \in entries : f.k \in Keys(d) } }

Violations(schema, d) == ViolationsAt(schema, d, <<>>)

\* The schemas of the Validator a client imports.
SchemasOf(c) == IF c = "EtimsClient" THEN schemasEtimsClient ELSE schemas

\* C17: an endpoint method whose payload fails validation raises
\* ValidationException with no authorization call made, no request
\* dispatched and the cache file neither written nor removed.
C17_InvalidPayloadNoNetwork ==
  (apiMethod # "" /\ Violations(schemas[schemaName], input) # {})
    => /\ pc = "done" /\ op = "validate"
       /\ outcome.kind = "ValidationException"
       /\ authCalls = 0 /\ Len(sent) = 0 /\ Len(log) = 0 /\ ~cacheTouched
       /\ response = NoResponse

C17_Witness ==
  /\ pc = "done" /\ op = "validate" /\ apiMethod = "selectInitOsdcInfo"
  /\ outcome.kind = "ValidationException"
  /\ cache.kind = "json" /\ authCalls = 0 /\ Len(sent) = 0

\* C20: validate raises ValidationException exactly for the payloads that
\* violate a constraint of the schema, with as many messages as constraints
\* violated and a message for every key that violates one; a payload with
\* one required key missing and one key that is not declared gets two.
C20_OneMessagePerViolation ==
  (pc = "done" /\ op = "validate" /\ schemaName \in DOMAIN SchemasOf(client))
    => LET broken == Violations(SchemasOf(client)[schemaName], input)
       IN IF broken = {}
            THEN outcome.kind = "return"
            ELSE /\ outcome.kind = "ValidationException"
                 /\ Len(outcome.errors) = Cardinality(broken)
                 /\ { outcome.errors[i].key : i \in 1..Len(outcome.errors) }
                      = { v[1] : v \in broken }

C20_Witness ==
  /\ pc = "done" /\ op = "validate" /\ schemaName = "initialization"
  /\ Keys(input) = {"extra", "tin", "bhfId"} /\ input[1].k = "extra"
  /\ outcome.kind = "ValidationException"
  /\ Len(outcome.errors) = 2
  /\ outcome.errors[1] = [key |-> <<"dvcSrlNo">>, text |-> "any.required"]
  /\ outcome.errors[2] = [key |-> <<"extra">>, text |-> "object.unknown"]

(***************************************************************************)
(* Validation: C21, C22 and C23.                                           *)
(***************************************************************************)
\* The properties of a payload that the schema does not declare, each by its
\* path: at the top level, in a nested object, in an item of an array.
Undeclared(schema, d) == { v[1] : v \in { w \in Violations(schema, d) : w[2] = "declared" } }

C22_ValidateIdempotent ==
  (op = "revalidate" /\ client = "EtimsOClient")
    => /\ outcome.kind = "return"
       /\ Get(outcome.value) = data

\* P held isrcRt as the text of a number, V holds the number.
C22_Witness ==
  /\ op = "revalidate" /\ client = "EtimsOClient" /\ schemaName = "saveBhfInsurance"
  /\ ValueOf(input, "isrcRt").t = "string" /\ ValueOf(data, "isrcRt").t = "number"
  /\ outcome.kind = "return" /\ Get(outcome.value) = data

\* C23: validate with a schema name that is not defined raises an error that
\* is no ValidationException, whatever the payload; with a defined one it
\* returns or raises ValidationException.
C23_UndefinedSchemaIsNoValidationError ==
  (pc = "done" /\ op \in {"validate", "revalidate"})
    => IF schemaName \in DOMAIN SchemasOf(client)
         THEN outcome.kind \in {"return", "ValidationException"}
         ELSE outcome.kind \in {"Error", "TypeError"}

C23_Witness ==
  /\ pc = "done" /\ op = "validate" /\ client = "EtimsOClient"
  /\ schemaName = "noSuchSchema" /\ Keys(input) = {"extra"}
  /\ outcome.kind = "Error"

(***************************************************************************)
(* Several callers in getToken(true) at once, one cache file, no lock.     *)
(* Every await of getToken and of TokenCacheManager.write is a point where *)
(* another caller may run.  fs.writeFile opens the file with flag 'w',     *)
(* which truncates it, and then writes its data from position 0 of its own *)
(* descriptor: two writeFile calls on one file may interleave, so the file *)
(* is followed character by character.                                     *)
(***************************************************************************)
\* Tokens (as characters) and lifetimes the authorization endpoint issues.
ConcTokens == { Chars("a", 4), Chars("b", 4), Chars("c", 5) }
ConcLifetimes == { 3600, 7200 }
ConcReplies ==
     { TokenReply("response", 200, TokenBody(Some(t), Some(l), None, None)) :
         t \in ConcTokens, l \in ConcLifetimes }
  \cup { TokenReply("response", 401, TokenBody(None, None, None, None)) }

\* The decimal digits of a natural number.
RECURSIVE Digits(_)
Digits(n) ==
  IF n < 10 THEN <<DigitChars[n + 1]>>
  ELSE Digits(n \div 10) \o <<DigitChars[(n % 10) + 1]>>

\* JSON.stringify of an integer.
NumberText(n) == IF n < 0 THEN <<"-">> \o Digits(-n) ELSE Digits(n)
\* Mutant: a character of a string is written as it is.
EscapeChar_Raw(c) == <<c>>
\* JSON.stringify of one character of a string: the quote, the backslash
\* and the control characters are escaped.
EscapeChar(c) ==
  IF c = "\"" THEN <<"\\", "\"">>
  ELSE IF c = "\\" THEN <<"\\", "\\">>
  ELSE IF c = "\n" THEN <<"\\", "n">>
  ELSE IF c = "\t" THEN <<"\\", "t">>
  ELSE <<c>>
\* JSON.stringify of a string.
Quote(str) ==
  <<"\"">> \o Flatten([i \in 1..Len(str) |-> EscapeChar(str[i])]) \o <<"\"">>

AccessTokenKey == <<"a", "c", "c", "e", "s", "s", "_", "t", "o", "k", "e", "n">>
ExpiresAtKey == <<"e", "x", "p", "i", "r", "e", "s", "_", "a", "t">>
Indent == <<"\n", " ", " ">>

\* JSON.stringify(token, null, 2)
Serialize(entry) ==
  <<"{">> \o Indent \o Quote(AccessTokenKey) \o <<":", " ">> \o Quote(entry.access_token)
    \o <<",">> \o Indent \o Quote(ExpiresAtKey) \o <<":", " ">> \o NumberText(entry.expires_at)
    \o <<"\n", "}">>

(***************************************************************************)
(* JSON.parse, for the texts that can be in the cache file: an object      *)
(* whose members are strings and integers.  A parse step yields            *)
(* [ok, value, next]: whether it succeeded, what it read, and the position *)
(* after it.                                                               *)
(***************************************************************************)
Parsed(ok, value, next) == [ok |-> ok, value |-> value, next |-> next]
ParseError == Parsed(FALSE, <<>>, 0)
IsWhitespace(c) == c \in {" ", "\n", "\t", "\r"}
RECURSIVE SkipWhitespace(_, _)
SkipWhitespace(bytes, i) ==
  IF i <= Len(bytes) /\ IsWhitespace(bytes[i]) THEN SkipWhitespace(bytes, i + 1) ELSE i

\* The characters of a string after its opening quote, up to the closing one.
RECURSIVE ParseChars(_, _, _)
ParseChars(bytes, i, acc) ==
  IF i > Len(bytes) THEN ParseError
  ELSE IF bytes[i] = "\"" THEN Parsed(TRUE, acc, i + 1)
  ELSE IF bytes[i] \in {"\n", "\t", "\r"} THEN ParseError
  ELSE IF bytes[i] = "\\"
    THEN IF i + 1 > Len(bytes) THEN ParseError
         ELSE IF bytes[i + 1] \in {"\"", "\\", "/"}
           THEN ParseChars(bytes, i + 2, Append(acc, bytes[i + 1]))
         ELSE IF bytes[i + 1] = "n" THEN ParseChars(bytes, i + 2, Append(acc, "\n"))
         ELSE IF bytes[i + 1] = "t" THEN ParseChars(bytes, i + 2, Append(acc, "\t"))
         ELSE ParseError
  ELSE ParseChars(bytes, i + 1, Append(acc, bytes[i]))

ParseString(bytes, i) ==
  IF i <= Len(bytes) /\ bytes[i] = "\"" THEN ParseChars(bytes, i + 1, <<>>) ELSE ParseError

\* The digits from position i on.
RECURSIVE DigitsEnd(_, _)
DigitsEnd(bytes, i) ==
  IF i <= Len(bytes) /\ IsDigit(bytes[i]) THEN DigitsEnd(bytes, i + 1) ELSE i

\* An integer: an optional minus sign, then 0 or digits that do not start with 0.
ParseNumber(bytes, i) ==
  LET neg == i <= Len(bytes) /\ bytes[i] = "-"
      from == IF neg THEN i + 1 ELSE i
      to == DigitsEnd(bytes, from)
      text == SubSeq(bytes, from, to - 1)
  IN IF to = from \/ (Len(text) > 1 /\ text[1] = "0") THEN ParseError
     ELSE Parsed(TRUE, IF neg THEN 0 - ToNumber(text) ELSE ToNumber(text), to)

\* Then(value), the value being computed once and handed on as it is.
With(value, Then(_)) == CHOOSE r \in { Then(x) : x \in {value} } : TRUE

\* One member of an object, "name": value, as [k, string, s, n].
Member(k, string, str, n) == [k |-> k, string |-> string, s |-> str, n |-> n]
ParseMemberValue(bytes, name, at) ==
  With(ParseString(bytes, at), LAMBDA str :
    IF str.ok
      THEN Parsed(TRUE, Member(name, TRUE, str.value, 0), SkipWhitespace(bytes, str.next))
      ELSE With(ParseNumber(bytes, at), LAMBDA num :
             IF num.ok
               THEN Parsed(TRUE, Member(name, FALSE, <<>>, num.value),
                           SkipWhitespace(bytes, num.next))
               ELSE ParseError))
ParseMember(bytes, i) ==
  With(ParseString(bytes, SkipWhitespace(bytes, i)), LAMBDA name :
    IF ~name.ok THEN ParseError
    ELSE With(SkipWhitespace(bytes, name.next), LAMBDA colon :
           IF colon > Len(bytes) \/ bytes[colon] # ":" THEN ParseError
           ELSE With(SkipWhitespace(bytes, colon + 1), LAMBDA at :
                  ParseMemberValue(bytes, name.value, at))))

\* The members after the opening brace, up to the closing one.
RECURSIVE ParseMembers(_, _, _)
ParseMembers(bytes, i, acc) ==
  With(ParseMember(bytes, i), LAMBDA m :
    IF ~m.ok \/ m.next > Len(bytes) THEN ParseError
    ELSE IF bytes[m.next] = "}" THEN Parsed(TRUE, Append(acc, m.value), m.next + 1)
    ELSE IF bytes[m.next] = "," THEN ParseMembers(bytes, m.next + 1, Append(acc, m.value))
    ELSE ParseError)

\* JSON.parse(text) of a text that is one object; anything after the
\* object but white space is a syntax error.
JsonParseObject(bytes) ==
  With(SkipWhitespace(bytes, 1), LAMBDA open :
    IF open > Len(bytes) \/ bytes[open] # "{" THEN ParseError
    ELSE With(SkipWhitespace(bytes, open + 1), LAMBDA first :
           With(IF first <= Len(bytes) /\ bytes[first] = "}"
                  THEN Parsed(TRUE, <<>>, first + 1)
                  ELSE ParseMembers(bytes, open + 1, <<>>),
                LAMBDA members :
                  IF ~members.ok \/ SkipWhitespace(bytes, members.next) <= Len(bytes)
                    THEN ParseError
                    ELSE members)))

\* JSON.parse(data) as TokenCache, of read(): the entry, or nothing when
\* JSON.parse throws.  (The file never holds the text of another object.)
ParseFile(bytes) ==
  With(JsonParseObject(bytes), LAMBDA obj :
    LET Has(k, string) == \E i \in 1..Len(obj.value) :
                            obj.value[i].k = k /\ obj.value[i].string = string
        Of(k) == obj.value[CHOOSE i \in 1..Len(obj.value) : obj.value[i].k = k]
    IN IF obj.ok /\ Has(AccessTokenKey, TRUE) /\ Has(ExpiresAtKey, FALSE)
         THEN Some(TokenCache(Of(AccessTokenKey).s, Of(ExpiresAtKey).n))
         ELSE None)

\* open(path, 'w'): the file is created or truncated.
OpenTruncate(bytes) == <<>>
\* write(fd, content) at position 0 of a descriptor opened before: what the
\* file held beyond the content stays.
WriteAt0(bytes, content) == content \o SubSeq(bytes, Len(content) + 1, Len(bytes))

\* The file as read() reports it.
FileView(bytes) ==
  LET parsed == ParseFile(bytes)
  IN IF Len(bytes) = 0 THEN NoFile
     ELSE IF IsSome(parsed) THEN JsonFile(Get(parsed))
     ELSE CorruptFile

\* Mutant: getToken returns the token the cache file holds when write is over.
ConcReturn_FromFile(issued, bytes) ==
  IF IsSome(ParseFile(bytes)) THEN Get(ParseFile(bytes)).access_token ELSE issued

\* return tokenData.access_token
ConcReturn(issued, bytes) == issued

OldFile == Serialize(TokenCache(Chars("o", 4), 3540))

InitConcurrent ==
  /\ cfg = Config(TRUE)
  /\ fileBytes \in { <<>>, OldFile }
  /\ cache = FileView(fileBytes)
  /\ callers = [c \in Callers |-> NotCalling]
  /\ now = 0
  /\ pc = "idle"
  /\ op = "none"
  /\ method = "GET"
  /\ key = ""
  /\ data = EmptyObject
  /\ apiMethod = ""
  /\ input = EmptyObject
  /\ schemaName = ""
  /\ force = FALSE
  /\ endpoint = Undefined
  /\ headers = NoHeaders
  /\ response = NoResponse
  /\ remote = NoRemote
  /\ outcome = Pending
  /\ exit = ""
  /\ sent = <<>>
  /\ authCalls = 0
  /\ authSent = <<>>
  /\ client = "EtimsOClient"
  /\ written = None
  /\ firstSignal = FALSE
  /\ cacheTouched = FALSE
  /\ recorded = FALSE
  /\ authReply = NoReply
  /\ log = <<>>
  /\ found = ""
  /\ sinceClear = "none"

ConcUnchanged ==
  UNCHANGED <<cfg, now, pc, op, method, key, data, force, endpoint, headers, response,
              remote, outcome, exit, sent, firstSignal, cacheTouched, recorded, authReply,
              log, found, apiMethod, input, schemaName, sinceClear, client, written>>

\* forceRefresh is true, so the cache is not read:
\* const tokenData = await this.fetchToken(); const expiresIn = ...
ConcFetch(c, reply) ==
  /\ callers[c].pc = "start"
  /\ LET f == FetchToken(cfg, reply)
     IN /\ authCalls' = authCalls + f.calls
        /\ authSent' = authSent \o (IF f.calls > 0 THEN <<AuthRequest(cfg)>> ELSE <<>>)
        /\ callers' = [callers EXCEPT ![c] =
             IF f.threw \/ ~IsSome(f.data.access_token)
               THEN Caller("failed", None, 0, None)
               ELSE Caller("open", f.data.access_token,
                           ExpiresAt(now, ParseExpiresIn(f.data.expires_in)), None)]
  /\ UNCHANGED <<cache, fileBytes>>
  /\ ConcUnchanged

\* await this.cache.write(...): fs.writeFile opens the file
ConcOpen(c) ==
  /\ callers[c].pc = "open"
  /\ fileBytes' = OpenTruncate(fileBytes)
  /\ cache' = FileView(fileBytes')
  /\ callers' = [callers EXCEPT ![c].pc = "write"]
  /\ UNCHANGED <<authCalls, authSent>>
  /\ ConcUnchanged

\* fs.writeFile writes its data
ConcWrite(c) ==
  /\ callers[c].pc = "write"
  /\ fileBytes' = WriteAt0(fileBytes, Serialize(TokenCache(Get(callers[c].issued),
                                                          callers[c].expires)))
  /\ cache' = FileView(fileBytes')
  /\ callers' = [callers EXCEPT ![c].pc = "written"]
  /\ UNCHANGED <<authCalls, authSent>>
  /\ ConcUnchanged

\* the await of write is over: return tokenData.access_token
ConcReturnToken(c) ==
  /\ callers[c].pc = "written"
  /\ callers' = [callers EXCEPT ![c].pc = "returned",
                                ![c].result = Some(ConcReturn(Get(callers[c].issued), fileBytes))]
  /\ UNCHANGED <<cache, fileBytes, authCalls, authSent>>
  /\ ConcUnchanged

NextConcurrent ==
  \/ \E c \in Callers, reply \in ConcReplies : ConcFetch(c, reply)
  \/ \E c \in Callers : ConcOpen(c)
  \/ \E c \in Callers : ConcWrite(c)
  \/ \E c \in Callers : ConcReturnToken(c)

SpecConcurrent == InitConcurrent /\ [][NextConcurrent]_vars

(***************************************************************************)
(* Concurrent forced refresh: C19.                                         *)
(***************************************************************************)
AllDone == \A c \in Callers : callers[c].pc \in {"returned", "failed"}
AllReturned == \A c \in Callers : callers[c].pc = "returned"
OwnToken == \A c \in Callers : callers[c].pc = "returned" => callers[c].result = callers[c].issued
\* The file holds the token and the expiry of the fetch of one caller.
HoldsOneFetch ==
  /\ IsSome(ParseFile(fileBytes))
  /\ \E c \in Callers :
       Get(ParseFile(fileBytes)) = TokenCache(Get(callers[c].issued), callers[c].expires)

\* C19, as stated: every caller returns the token of its own authorization
\* call, there are as many authorization calls as callers, and once all
\* have returned the cache file holds the token and the expiry of one fetch.
C19_ConcurrentForceRefresh ==
  /\ OwnToken
  /\ AllDone => authCalls = NumCallers
  /\ AllReturned => HoldsOneFetch

\* C19, amended: every caller returns the token of its own authorization
\* call, there are as many authorization calls as callers, and once all
\* have returned the cache file either holds the token and the expiry of
\* one fetch or cannot be parsed, which read() reports as no token.
C19_OneFetchOrUnreadable ==
  /\ OwnToken
  /\ AllDone => authCalls = NumCallers
  /\ AllReturned => (HoldsOneFetch \/ ~IsSome(ParseFile(fileBytes)))

C19_Witness ==
  /\ AllReturned
  /\ callers[1].issued # callers[2].issued
  /\ IsSome(ParseFile(fileBytes))
  /\ Get(ParseFile(fileBytes)) = TokenCache(Get(callers[1].issued), callers[1].expires)
  /\ Get(ParseFile(fileBytes)).expires_at # callers[2].expires

(***************************************************************************)
(* The configuration's environment and timeout: the pipeline started from  *)
(* every environment and every http.timeout, on one endpoint.              *)
(***************************************************************************)
\* http.timeout values (seconds) a configuration sets; None: not set.
HttpTimeouts == { None, Some(5), Some(60) }
EnvConfigs == { EnvConfig(e, t, TRUE) : e \in {"sbx", "prod"}, t \in HttpTimeouts }
\* What the remote answers in this specification.
EnvRemoteOutcomes ==
  { Remote("http", 200, Body("json", Json(Some(<<0,0,0>>), None, None))),
    Remote("http", 401, Body("json", EmptyJson)),
    Remote("none", 0, Body("empty", EmptyJson)) }

InitEnvironment ==
  /\ cfg \in EnvConfigs
  /\ cache = NoFile
  /\ now = 0
  /\ pc = "idle"
  /\ op = "none"
  /\ method = "GET"
  /\ key = ""
  /\ data = EmptyObject
  /\ apiMethod = ""
  /\ input = EmptyObject
  /\ schemaName = ""
  /\ force = FALSE
  /\ endpoint = Undefined
  /\ headers = NoHeaders
  /\ response = NoResponse
  /\ remote = NoRemote
  /\ outcome = Pending
  /\ exit = ""
  /\ sent = <<>>
  /\ authCalls = 0
  /\ authSent = <<>>
  /\ client = "EtimsOClient"
  /\ written = None
  /\ firstSignal = FALSE
  /\ cacheTouched = FALSE
  /\ recorded = FALSE
  /\ authReply = NoReply
  /\ log = <<>>
  /\ found = ""
  /\ sinceClear = "none"
  /\ callers = [c \in Callers |-> NotCalling]
  /\ fileBytes = <<>>

NextEnvironment ==
  \/ \E m \in {"GET", "POST"} : SendStart(m, "saveItem", Payload1)
  \/ \E reply \in TokenOutcomes : BuildHeaders(reply)
  \/ \E ro \in EnvRemoteOutcomes : Dispatch(ro)
  \/ SendClearToken
  \/ \E reply \in TokenOutcomes : SendForceRefresh(reply)
  \/ \E f \in BOOLEAN, reply \in TokenOutcomes : CallGetToken(f, reply)
  \/ Return
  \/ Tick

SpecEnvironment == InitEnvironment /\ [][NextEnvironment]_vars

(***************************************************************************)
(* Timeout and environment: C27 and C28.                                   *)
(***************************************************************************)
\* The timeout the claim expects, in milliseconds.
ExpectedTimeout ==
  (IF IsSome(cfg.http) THEN Get(cfg.http) ELSE 30) * 1000

\* C27: every business dispatch and every authorization call is made with
\* a timeout of http.timeout x 1000 ms, and of 30 s when none is configured.
C27_TimeoutEverywhere ==
  /\ \A i \in 1..Len(sent) : sent[i].timeout = ExpectedTimeout
  /\ \A i \in 1..Len(authSent) : authSent[i].timeout = ExpectedTimeout

\* The hosts and credentials of each environment, as the documentation of
\* the configuration gives them.
DocumentedHosts ==
  [ sbx |-> [base_url |-> "https://etims-api-sbx.kra.go.ke/etims-api",
             token_url |-> "https://sbx.kra.go.ke/v1/token/generate",
             basic |-> "sbxKey:sbxSecret"],
    prod |-> [base_url |-> "https://etims-api.kra.go.ke/etims-api",
              token_url |-> "https://api.kra.go.ke/v1/token/generate",
              basic |-> "prodKey:prodSecret"] ]

\* C28: business requests go to the base URL of the selected environment,
\* and tokens are fetched from its token URL with its credentials.
C28_EnvironmentSelectsHosts ==
  /\ \A i \in 1..Len(sent) : sent[i].baseUrl = DocumentedHosts[cfg.env].base_url
  /\ \A i \in 1..Len(authSent) :
       /\ authSent[i].url = DocumentedHosts[cfg.env].token_url
       /\ authSent[i].basic = DocumentedHosts[cfg.env].basic

(***************************************************************************)
(* TokenCacheManager on its own, and getToken() on the file it finds: one  *)
(* caller, followed character by character.  Every call runs to its end    *)
(* before the next starts.  A file that does not exist has no characters.  *)
(***************************************************************************)
\* The characters of the access tokens written, the longest token, and
\* the tokens.
TokenChars == { "a", "\"", "\\" }
MaxTokenLen == 2
TokenStrings == UNION { [1..n -> TokenChars] : n \in 0..MaxTokenLen }
ExpiryValues == { 0 - 60, 3540 }
CacheTokens == { TokenCache(t, e) : t \in TokenStrings, e \in ExpiryValues }

\* Texts found in the file that JSON.parse rejects: no JSON at all, and an
\* entry cut short.
CorruptTexts ==
  { <<"<", "h", "t", "m", "l", ">">>,
    SubSeq(Serialize(TokenCache(Chars("o", 4), 3540)), 1, 20) }
\* A file that cannot be read: fs.stat or fs.readFile rejects.
Unreadable == [kind |-> "unreadable", entry |-> TokenCache("", 0)]

\* Mutant: read lets the error of JSON.parse escape.
FileRead_NoCatch(bytes, ioError) ==
  IF ioError THEN [threw |-> FALSE, file |-> Unreadable]
  ELSE [threw |-> FileView(bytes).kind = "corrupt", file |-> FileView(bytes)]

\* read(), as far as the file system goes: stat, readFile and JSON.parse
\* inside try, every error caught.  [threw, file]
FileRead(bytes, ioError) ==
  IF ioError THEN [threw |-> FALSE, file |-> Unreadable]
  ELSE [threw |-> FALSE, file |-> FileView(bytes)]

\* write(token): mkdir, then writeFile, which opens and writes.
FileWrite(bytes, token) == WriteAt0(OpenTruncate(bytes), Serialize(token))

\* fs.unlink(path): rejects with ENOENT when there is no file.  [threw, bytes]
Unlink(bytes) ==
  IF Len(bytes) = 0 THEN [threw |-> TRUE, bytes |-> bytes]
  ELSE [threw |-> FALSE, bytes |-> <<>>]

\* Mutant: clear lets the error of unlink escape.
FileClear_NoCatch(bytes) == Unlink(bytes)

\* clear(): unlink inside try, the error ignored.  [threw, bytes]
FileClear(bytes) == [threw |-> FALSE, bytes |-> Unlink(bytes).bytes]

\* What read() returned: null or the entry.
ReturnEntry(o) == Result("return", 0, None, PlainMsg(""), None, o, None)
\* An error of the file system or of JSON.parse that escaped.
IoError == Result("Error", 0, None, PlainMsg("ENOENT"), None, None, None)

\* The last two calls made.
LastTwo(events) == IF Len(events) > 2 THEN SubSeq(events, Len(events) - 1, Len(events)) ELSE events
\* What a read found.
Found(file, t) ==
  IF file.kind # "json" THEN file.kind
  ELSE IF CacheIsFresh(file.entry, t) THEN "fresh" ELSE "stale"

InitCache ==
  /\ cfg = Config(TRUE)
  /\ fileBytes \in { <<>>, OldFile } \cup CorruptTexts
  /\ cache = FileView(fileBytes)
  /\ callers = [c \in Callers |-> NotCalling]
  /\ now = 0
  /\ pc = "idle"
  /\ op = "none"
  /\ method = "GET"
  /\ key = ""
  /\ data = EmptyObject
  /\ apiMethod = ""
  /\ input = EmptyObject
  /\ schemaName = ""
  /\ force = FALSE
  /\ endpoint = Undefined
  /\ headers = NoHeaders
  /\ response = NoResponse
  /\ remote = NoRemote
  /\ outcome = Pending
  /\ exit = ""
  /\ sent = <<>>
  /\ authCalls = 0
  /\ authSent = <<>>
  /\ client = "EtimsOClient"
  /\ written = None
  /\ firstSignal = FALSE
  /\ cacheTouched = FALSE
  /\ recorded = FALSE
  /\ authReply = NoReply
  /\ log = <<>>
  /\ found = ""
  /\ sinceClear = "none"

CacheUnchanged ==
  UNCHANGED <<cfg, now, pc, method, key, data, force, endpoint, headers, response,
              remote, exit, sent, firstSignal, cacheTouched, recorded, apiMethod, input,
              schemaName, sinceClear, callers, client>>

\* cacheManager.write(token)
CacheWriteCall(token) ==
  /\ pc = "idle"
  /\ op' = "write"
  /\ fileBytes' = FileWrite(fileBytes, token)
  /\ cache' = FileView(fileBytes')
  /\ written' = Some(token)
  /\ outcome' = ReturnVoid
  /\ log' = LastTwo(Append(log, "write"))
  /\ authCalls' = 0 /\ authSent' = <<>> /\ authReply' = NoReply /\ found' = ""
  /\ CacheUnchanged

\* cacheManager.read(), the file system failing (ioError) or not
CacheReadCall(ioError) ==
  /\ pc = "idle"
  /\ op' = "read"
  /\ LET r == FileRead(fileBytes, ioError)
     IN /\ outcome' = IF r.threw THEN IoError ELSE ReturnEntry(CacheRead(r.file))
        /\ found' = Found(r.file, now)
  /\ log' = LastTwo(Append(log, "read"))
  /\ authCalls' = 0 /\ authSent' = <<>> /\ authReply' = NoReply
  /\ UNCHANGED <<fileBytes, cache, written>>
  /\ CacheUnchanged

\* cacheManager.clear()
CacheClearCall ==
  /\ pc = "idle"
  /\ op' = "clear"
  /\ LET r == FileClear(fileBytes)
     IN /\ fileBytes' = r.bytes
        /\ outcome' = IF r.threw THEN IoError ELSE ReturnVoid
  /\ cache' = FileView(fileBytes')
  /\ written' = None
  /\ log' = LastTwo(Append(log, "clear"))
  /\ authCalls' = 0 /\ authSent' = <<>> /\ authReply' = NoReply /\ found' = ""
  /\ CacheUnchanged

\* auth.getToken(), the authorization endpoint answering reply
CacheGetTokenCall(ioError, reply) ==
  /\ pc = "idle"
  /\ op' = "getToken"
  /\ LET r == FileRead(fileBytes, ioError)
         step == GetToken(cfg, r.file, now, FALSE, reply)
     IN /\ found' = Found(r.file, now)
        /\ outcome' = IF r.threw THEN IoError ELSE step.result
        /\ fileBytes' = IF ~r.threw /\ step.wrote THEN FileWrite(fileBytes, step.file.entry)
                         ELSE fileBytes
        /\ written' = IF ~r.threw /\ step.wrote THEN Some(step.file.entry) ELSE written
        /\ authCalls' = IF r.threw THEN 0 ELSE step.calls
        /\ authSent' = IF ~r.threw /\ step.calls > 0 THEN <<AuthRequest(cfg)>> ELSE <<>>
        /\ authReply' = IF ~r.threw /\ step.calls > 0 THEN reply ELSE NoReply
  /\ cache' = FileView(fileBytes')
  /\ log' = LastTwo(Append(log, "getToken"))
  /\ CacheUnchanged

NextCache ==
  \/ \E token \in CacheTokens : CacheWriteCall(token)
  \/ \E ioError \in BOOLEAN : CacheReadCall(ioError)
  \/ CacheClearCall
  \/ \E ioError \in BOOLEAN, reply \in ConcReplies : CacheGetTokenCall(ioError, reply)

SpecCache == InitCache /\ [][NextCache]_vars

(***************************************************************************)
(* The token cache: C24, C25 and C26.                                      *)
(***************************************************************************)
\* C24: read() right after write(t), the file system not failing, returns
\* an entry equal to t in access_token and in expires_at.
C24_WriteReadRoundTrip ==
  (op = "read" /\ log = <<"write", "read">> /\ found # "unreadable")
    => /\ outcome.kind = "return"
       /\ IsSome(outcome.value)
       /\ Get(outcome.value).access_token = Get(written).access_token
       /\ Get(outcome.value).expires_at = Get(written).expires_at

C24_Witness ==
  /\ op = "read" /\ log = <<"write", "read">>
  /\ IsSome(written)
  /\ Get(written).access_token = <<"\"", "\\">>
  /\ Get(written).expires_at < 0
  /\ outcome.value = written

\* C25: clear() returns normally whatever the file was, and leaves no
\* file; a clear after a clear changes nothing; read() after clear()
\* returns null.
C25_ClearIdempotent ==
  [][ /\ op' = "clear" => (outcome' = ReturnVoid /\ Len(fileBytes') = 0 /\ cache'.kind = "absent")
      /\ (op = "clear" /\ op' = "clear")
           => (fileBytes' = fileBytes /\ cache'.kind = cache.kind /\ outcome' = outcome)
      /\ (op = "clear" /\ op' = "read")
           => (outcome'.kind = "return" /\ outcome'.value = None) ]_vars

C25_Witness ==
  /\ op = "clear" /\ log = <<"clear", "clear">>
  /\ outcome = ReturnVoid /\ Len(fileBytes) = 0

\* The authorization endpoint issued a token.
IssuedToken(reply) ==
  reply.kind = "response" /\ reply.status = 200 /\ IsSome(reply.body.access_token)

AuthClientReplies ==
     { TokenReply("response", 200, TokenBody(Some(t), Some(3600), None, None)) : t \in Tokens }
  \cup { TokenReply("response", 401, TokenBody(None, None, None, None)) }

\* AuthClient.getToken(forceRefresh)
AuthClientGetToken(file, t, forceRefresh, reply) ==
  LET cached == CacheRead(file)
      hit == ~forceRefresh /\ IsSome(cached) /\ CacheIsFresh(Get(cached), t)
      issued == /\ reply.kind = "response" /\ reply.status = 200
                /\ IsSome(reply.body.access_token) /\ IsSome(reply.body.expires_in)
  IN IF hit
       THEN AuthStep(FALSE, ReturnToken(Get(cached).access_token), file, 0, FALSE)
     ELSE IF issued
       THEN AuthStep(FALSE, ReturnToken(Get(reply.body.access_token)),
                     CacheWrite(file, TokenCache(Get(reply.body.access_token),
                                                 ExpiresAt(t, Get(reply.body.expires_in)))),
                     1, TRUE)
     ELSE AuthStep(TRUE, AuthenticationException(PlainMsg("Token fetch failed"), reply.status),
                   file, 1, FALSE)

\* AuthClient.clearToken()
AuthClientClearToken(file) == AuthStep(FALSE, ReturnVoid, CacheClear(file), 0, TRUE)

\* KraEtimsConfig: the endpoint table, the hosts, and with them the fields
\* of the configuration above (oscu.tin, oscu.bhf_id, oscu.cmc_key).
KraEndpoints ==
  [ selectInitOsdcInfo |-> "/selectInitOsdcInfo",
    selectBhfList |-> "/branchList",
    sendPurchaseTransactionInfo |-> "/sendPurchaseTransactionInfo",
    sendSalesTransaction |-> "/sendSalesTransaction" ]
KraEtimsConfig(env, timeout) ==
  [api |-> [sbx |-> "https://etims-api-sbx.kra.go.ke/etims-api",
            prod |-> "https://etims-api.kra.go.ke/etims-api"],
   endpoints |-> KraEndpoints] @@ EnvConfig(env, timeout, TRUE)

\* BaseClient.constructor: the timeout, in seconds, used when http.timeout is not set.
BaseClientDefaultTimeout == 30
\* this.timeoutMs = (config.http?.timeout ?? 30) * 1000
TimeoutMs(config) ==
  (IF IsSome(config.http) THEN Get(config.http) ELSE BaseClientDefaultTimeout) * 1000
\* getBaseUrl()
GetBaseUrl(config) == config.api[config.env]

\* getEndpoint(key): [threw, exc, value].  config.endpoints is an object
\* literal, so a key it does not own finds the members of Object.prototype.
GetEndpoint(config, k) ==
  IF StartsWithSlash(k)
    THEN [threw |-> TRUE, value |-> Undefined,
          exc |-> ApiException(PlainMsg("Endpoint key expected, path given"), 500, None, None)]
  ELSE IF k \in DOMAIN config.endpoints
    THEN [threw |-> FALSE, value |-> Value("string", config.endpoints[k]), exc |-> Pending]
  ELSE IF k \in ObjectPrototypeKeys
    THEN [threw |-> FALSE, value |-> Value("object", k), exc |-> Pending]
  ELSE [threw |-> TRUE, value |-> Undefined,
        exc |-> ApiException(PlainMsg("Endpoint not configured"), 500, None, None)]

\* The headers of request: cmcKey is set only when oscu.cmc_key is truthy.
RequestHeaders(config, path, token) ==
  IF IsInitEndpoint(path)
    THEN [Authorization |-> token, tin |-> None, bhfId |-> None, cmcKey |-> None]
    ELSE [Authorization |-> token,
          tin |-> Some(config.tin), bhfId |-> Some(config.bhf_id),
          cmcKey |-> IF IsSome(config.cmc_key) /\ Get(config.cmc_key) # ""
                       THEN config.cmc_key ELSE None]

\* The try / catch of request around axios, the remote answering with ro:
\* the response handed to processResponse, or the exception.
AxiosResponse(ro) ==
  IF ro.kind = "none"
    THEN [threw |-> TRUE, exc |-> ApiException(PlainMsg("Request failed"), 500, None, None),
          response |-> NoResponse]
    \* processResponse: JSON.parse in a try that keeps {} on failure
    ELSE [threw |-> FALSE, exc |-> Pending,
          response |-> Response(ro.status, ro.body,
                                IF JsonParse(ro.body).threw THEN EmptyJson
                                ELSE JsonParse(ro.body).json)]

\* BaseClient.isTokenExpired(status, body)
IsTokenExpiredBaseClient(resp) ==
  \/ resp.status = 401
  \/ IsSome(resp.json.fault) /\ FaultPattern(Get(resp.json.fault))

\* json.resultCd && json.resultCd !== '0000'
IsBusinessError(json) == ~ResultCdFalsy(json) /\ Get(json.resultCd) # <<0,0,0,0>>

\* BaseClient.unwrap(status, json, rawBody)
UnwrapBaseClient(resp) ==
  IF IsBusinessError(resp.json)
    THEN ApiException(Msg("KRA business error", 0, resp.json.resultCd, resp.json.resultMsg),
                      400, resp.json.resultCd, Some(resp.json))
  ELSE IF resp.status >= 200 /\ resp.status < 300 THEN ReturnJson(resp.json)
  ELSE IF resp.status = 401
    THEN AuthenticationException(PlainMsg("Unauthorized: Invalid or expired token"), 401)
  ELSE ApiException(Msg("HTTP error", resp.status, None, resp.json.fault), resp.status, None, None)

\* The endpoint methods of EtimsClient: the endpoint key and the schema name
\* each hands on.
EtimsClientMethods ==
  [ selectInitOsdcInfo |-> ApiMethod("selectInitOsdcInfo", "initialization"),
    selectCodeList |-> ApiMethod("selectCodeList", "codeList"),
    selectItemClsList |-> ApiMethod("selectItemClsList", "itemClsList"),
    selectBhfList |-> ApiMethod("selectBhfList", "bhfList"),
    selectNoticeList |-> ApiMethod("selectNoticeList", "noticeList"),
    selectTaxpayerInfo |-> ApiMethod("selectTaxpayerInfo", "taxpayerInfo"),
    selectCustomerList |-> ApiMethod("selectCustomerList", "customerList"),
    selectPurchaseTrns |-> ApiMethod("selectPurchaseTrns", "purchaseTrns"),
    sendSalesTrns |-> ApiMethod("sendSalesTrns", "salesTrns"),
    selectSalesTrns |-> ApiMethod("selectSalesTrns", "selectSalesTrns"),
    selectMoveList |-> ApiMethod("selectMoveList", "moveList"),
    saveStockMaster |-> ApiMethod("saveStockMaster", "stockMaster"),
    branchInsuranceInfo |-> ApiMethod("branchInsuranceInfo", "branchInsurance"),
    branchUserAccount |-> ApiMethod("branchUserAccount", "branchUserAccount"),
    branchSendCustomerInfo |-> ApiMethod("branchSendCustomerInfo", "customerInfo"),
    sendPurchaseTransactionInfo |-> ApiMethod("sendPurchaseTransactionInfo", "purchaseTransaction"),
    sendSalesTransaction |-> ApiMethod("sendSalesTransaction", "salesTransaction"),
    saveItem |-> ApiMethod("saveItem", "item"),
    insertStockIO |-> ApiMethod("insertStockIO", "stockIO") ]

\* The sale of the test 'should send sales transaction with full tax
\* breakdown', the same with only the fields salesTransaction lists, with
\* invcNo 'INV001', and with an item of tax type F.
FullSale == SalesTransactionPayload(VNum(1), TaxBreakdown, <<TransactionItem("C", ItemBreakdown)>>)
ListedSale == SalesTransactionPayload(VNum(1), <<>>, <<TransactionItem("C", <<>>)>>)
TextInvoiceSale == SalesTransactionPayload(INV001, TaxBreakdown, <<TransactionItem("C", ItemBreakdown)>>)
TaxTypeFSale == SalesTransactionPayload(VNum(1), TaxBreakdown, <<TransactionItem("F", ItemBreakdown)>>)
EtimsClientCalls ==
     { MethodCall("sendSalesTransaction", d) :
         d \in { FullSale, ListedSale, TextInvoiceSale, TaxTypeFSale } }
  \cup { MethodCall("selectInitOsdcInfo", d) : d \in { InitPayload, EmptyObject } }
  \cup { MethodCall("selectBhfList", <<StrProp("lastReqDt", "2", 14)>>),
         MethodCall("sendPurchaseTransactionInfo", EmptyObject) }
  \cup { MethodCall(m, d) : m \in DOMAIN EtimsClientMethods, d \in { EmptyObject, Payload1 } }

\* What the remote answers in this specification.
EtimsClientRemoteOutcomes ==
  { Remote("http", 200, Body("json", Json(Some(<<0,0,0,0>>), None, None))),
    Remote("http", 200, Body("json", Json(Some(<<0,0,0>>), Some("Success"), None))),
    Remote("http", 200, Body("json", Json(None, None, Some("Access Token expired")))),
    Remote("http", 401, Body("json", EmptyJson)),
    Remote("http", 401, Body("text", EmptyJson)),
    Remote("http", 500, Body("text", EmptyJson)),
    Remote("none", 0, Body("empty", EmptyJson)) }

\* The requests one call may dispatch before the model stops following it.
MaxDispatches == 3

InitEtimsClient ==
  /\ cfg = KraEtimsConfig("sbx", None)
  /\ cache \in { NoFile, JsonFile(TokenCache("tokOld", 0)), JsonFile(TokenCache("tokOld", 3540)) }
  /\ now = 0
  /\ pc = "idle"
  /\ op = "none"
  /\ method = "GET"
  /\ key = ""
  /\ data = EmptyObject
  /\ apiMethod = ""
  /\ input = EmptyObject
  /\ schemaName = ""
  /\ force = FALSE
  /\ endpoint = Undefined
  /\ headers = NoHeaders
  /\ response = NoResponse
  /\ remote = NoRemote
  /\ outcome = Pending
  /\ exit = ""
  /\ sent = <<>>
  /\ authCalls = 0
  /\ authSent = <<>>
  /\ client = "EtimsClient"
  /\ written = None
  /\ firstSignal = FALSE
  /\ cacheTouched = FALSE
  /\ recorded = FALSE
  /\ authReply = NoReply
  /\ log = <<>>
  /\ found = ""
  /\ sinceClear = "none"
  /\ callers = [c \in Callers |-> NotCalling]
  /\ fileBytes = <<>>

\* A method of EtimsClient, d being its argument: validate runs first, and
\* may throw; then post enters request with the value validate returned.
EtimsClientCall(m, d) ==
  /\ pc = "idle"
  /\ apiMethod' = m /\ input' = d /\ schemaName' = EtimsClientMethods[m].schema
  /\ LET v == ValidatorValidateEtimsClient(d, EtimsClientMethods[m].schema)
     IN IF v.threw
          THEN /\ op' = "validate" /\ pc' = "done" /\ outcome' = v.exc /\ exit' = "validate"
               /\ UNCHANGED <<method, key, data>>
          ELSE /\ op' = "request" /\ method' = "POST" /\ key' = EtimsClientMethods[m].key
               /\ data' = v.value
               /\ pc' = "req_token" /\ outcome' = Pending /\ exit' = ""
  /\ UNCHANGED <<cfg, cache, now, force, endpoint, headers, response, remote, sent, authCalls,
                 authSent, firstSignal, cacheTouched, recorded, authReply, log, found,
                 sinceClear, callers, fileBytes, client, written>>

\* A subclass calls this.post(endpointKey, body) or this.get(endpointKey,
\* query) itself: request is entered with the key as it is given.
RequestKeys == { "selectBhfList", "notConfigured" } \cup PathLikeKeys
RequestStart(m, k, d) ==
  /\ pc = "idle"
  /\ op' = "request" /\ method' = m /\ key' = k /\ data' = d
  /\ pc' = "req_token" /\ outcome' = Pending /\ exit' = ""
  /\ UNCHANGED <<cfg, cache, now, force, endpoint, headers, response, remote, sent, authCalls,
                 authSent, firstSignal, cacheTouched, recorded, authReply, log, found,
                 sinceClear, apiMethod, input, schemaName, callers, fileBytes, client, written>>

\* request, up to the axios call: await this.auth.getToken(), getEndpoint,
\* the headers.  It runs again for every request processResponse starts.
RequestGetToken(reply) ==
  /\ pc = "req_token"
  /\ LET step == AuthClientGetToken(cache, now, FALSE, reply)
         e == GetEndpoint(cfg, key)
     IN /\ AuthEffect(step)
        /\ GetTokenHistory(step, reply)
        /\ IF step.threw
             THEN /\ pc' = "done" /\ exit' = "token"
                  /\ outcome' = AuthenticationException(
                                  PlainMsg("Failed to obtain access token"), 401)
                  /\ UNCHANGED <<endpoint, headers>>
           ELSE IF e.threw \/ e.value.type # "string"
             THEN /\ pc' = "done" /\ exit' = "endpoint"
                  /\ outcome' = (IF e.threw THEN e.exc ELSE TypeError)
                  /\ endpoint' = e.value /\ headers' = headers
           ELSE /\ pc' = "req_axios" /\ outcome' = outcome /\ exit' = exit
                /\ endpoint' = e.value
                /\ headers' = RequestHeaders(cfg, e.value.str, Get(step.result.token))
  /\ UNCHANGED <<cfg, now, op, method, key, data, force, response, remote, sent, firstSignal>>
  /\ UNCHANGED <<apiMethod, input, schemaName, callers, fileBytes, client, written>>

\* request: the axios call, and processResponse up to its first await.  No
\* counter of the requests made is kept anywhere.
RequestDispatch(ro) ==
  /\ pc = "req_axios"
  /\ Len(sent) < MaxDispatches
  /\ sent' = Append(sent, [method |-> method, path |-> endpoint.str,
                           query |-> QueryOf(method, data), body |-> BodyOf(method, data),
                           headers |-> headers, baseUrl |-> GetBaseUrl(cfg),
                           timeout |-> TimeoutMs(cfg)])
  /\ remote' = ro
  /\ firstSignal' = (IF Len(sent) = 0 THEN ExpirySignal(ro) ELSE firstSignal)
  /\ LET r == AxiosResponse(ro)
     IN IF r.threw
          THEN /\ pc' = "done" /\ outcome' = r.exc /\ response' = response
               /\ exit' = "request"
        ELSE IF IsTokenExpiredBaseClient(r.response)
          THEN /\ pc' = "pr_clear" /\ outcome' = outcome /\ response' = r.response
               /\ exit' = exit
        ELSE /\ pc' = "done" /\ outcome' = UnwrapBaseClient(r.response)
             /\ response' = r.response /\ exit' = "unwrap"
  /\ log' = Append(log, "dispatch")
  /\ UNCHANGED <<cfg, cache, now, op, method, key, data, force, endpoint, headers,
                 authCalls, authSent, cacheTouched, recorded, authReply, found, sinceClear>>
  /\ UNCHANGED <<apiMethod, input, schemaName, callers, fileBytes, client, written>>

\* processResponse: await this.auth.clearToken()
ProcessResponseClearToken ==
  /\ pc = "pr_clear"
  /\ AuthEffect(AuthClientClearToken(cache))
  /\ ClearTokenHistory
  /\ pc' = "pr_refresh"
  /\ UNCHANGED <<cfg, now, op, method, key, data, force, endpoint, headers, response,
                 remote, outcome, exit, sent, firstSignal>>
  /\ UNCHANGED <<apiMethod, input, schemaName, callers, fileBytes, client, written>>

\* processResponse: await this.auth.getToken(true), then
\* return this.request(method, endpointKey, originalData).
ProcessResponseForceRefresh(reply) ==
  /\ pc = "pr_refresh"
  /\ LET step == AuthClientGetToken(cache, now, TRUE, reply)
     IN /\ AuthEffect(step)
        /\ GetTokenHistory(step, reply)
        /\ IF step.threw
             THEN /\ pc' = "done" /\ exit' = "refresh"
                  /\ outcome' = AuthenticationException(
                                  PlainMsg("Token refresh failed after expiration"), 401)
             ELSE pc' = "req_token" /\ outcome' = outcome /\ exit' = exit
  /\ UNCHANGED <<cfg, now, op, method, key, data, force, endpoint, headers, response,
                 remote, sent, firstSignal>>
  /\ UNCHANGED <<apiMethod, input, schemaName, callers, fileBytes, client, written>>

NextEtimsClient ==
  \/ \E c \in EtimsClientCalls : EtimsClientCall(c.name, c.data)
  \/ \E m \in {"GET", "POST"}, k \in RequestKeys : RequestStart(m, k, Payload1)
  \/ \E reply \in AuthClientReplies : RequestGetToken(reply)
  \/ \E ro \in EtimsClientRemoteOutcomes : RequestDispatch(ro)
  \/ ProcessResponseClearToken
  \/ \E reply \in AuthClientReplies : ProcessResponseForceRefresh(reply)
  \/ Return

SpecEtimsClient == InitEtimsClient /\ [][NextEtimsClient]_vars

(***************************************************************************)
(* EtimsClient: C29 and C30.                                               *)
(***************************************************************************)
\* C29: sendSalesTransaction with the documented full sale (the fields of
\* salesTransaction, the 15 tax fields, modrId, modrNm and the item fields
\* pkgUnitCd, pkg, qtyUnitCd, dcRt, dcAmt, barCd) passes validation and
\* enters request; with invcNo 'INV001' or an item of tax type F it raises
\* ValidationException and dispatches nothing.
C29_FullSalePayloadAccepted ==
  (apiMethod = "sendSalesTransaction" /\ pc # "idle")
    => /\ input = FullSale
            => op = "request" /\ outcome.kind # "ValidationException"
       /\ input \in {TextInvoiceSale, TaxTypeFSale}
            => outcome.kind = "ValidationException" /\ Len(sent) = 0

\* C30: one call of request dispatches at most twice, and when the second
\* dispatch too is answered with a token-expiry signal the call has ended
\* with an error.
C30_RetriesAtMostOnce ==
  op = "request"
    => /\ Len(sent) <= 2
       /\ (Len(sent) = 2 /\ ExpirySignal(remote)) => (pc = "done" /\ IsError(outcome))

\* C31: request with an endpoint key that is not configured, or that starts
\* with '/', raises ApiException(500) with no authorization call made and
\* nothing dispatched, whatever the token cache holds.
C31_BadKeyBeforeNetwork ==
  (op = "request" /\ pc = "done" /\ apiMethod = ""
     /\ (StartsWithSlash(key) \/ key \notin DOMAIN cfg.endpoints))
    => /\ outcome.kind = "ApiException" /\ outcome.statusCode = 500
       /\ authCalls = 0 /\ Len(sent) = 0

(***************************************************************************)
(* BaseClient with the static endpoint table: send, request, buildHeaders  *)
(* and isTokenExpired read as BaseOClient's do, on an AuthClient; unwrap   *)
(* is its own.  The pipeline is followed on the key saveItem, which both   *)
(* tables hold with the same path.                                         *)
(***************************************************************************)
\* json.resultCd && json.resultCd !== '000'
IsBusinessErrorStatic(json) == ~ResultCdFalsy(json) /\ Get(json.resultCd) # <<0,0,0>>

\* BaseClient.unwrap(response)
UnwrapStatic(resp) ==
  IF IsBusinessErrorStatic(resp.json)
    THEN ApiException(Msg("KRA business error", 0, resp.json.resultCd, resp.json.resultMsg),
                      400, resp.json.resultCd, Some(resp.json))
  ELSE IF resp.status >= 200 /\ resp.status < 300 THEN ReturnJson(resp.json)
  ELSE IF resp.status = 401
    THEN AuthenticationException(PlainMsg("Unauthorized: Invalid or expired token"), 401)
  ELSE ApiException(Msg("HTTP error", resp.status, None, resp.json.fault), resp.status, None, None)

\* What the remote answers in this specification.
BaseClientRemoteOutcomes ==
  { Remote("http", 200, Body("json", Json(Some(<<0,0,0>>), None, None))),
    Remote("http", 200, Body("json", Json(Some(<<9,0,0>>), Some("Invalid item code"), None))),
    Remote("http", 401, Body("json", EmptyJson)),
    Remote("http", 401, Body("json", Json(Some(<<9,0,0>>), Some("Invalid item code"), None))),
    Remote("http", 401, Body("json", Json(Some(<<0,0,0>>), None, None))),
    Remote("http", 500, Body("json", EmptyJson)),
    Remote("none", 0, Body("empty", EmptyJson)) }

InitBaseClient ==
  /\ cfg = KraEtimsConfig("sbx", None)
  /\ cache \in { NoFile, JsonFile(TokenCache("tokOld", 3540)) }
  /\ now = 0
  /\ pc = "idle"
  /\ op = "none"
  /\ method = "GET"
  /\ key = ""
  /\ data = EmptyObject
  /\ apiMethod = ""
  /\ input = EmptyObject
  /\ schemaName = ""
  /\ force = FALSE
  /\ endpoint = Undefined
  /\ headers = NoHeaders
  /\ response = NoResponse
  /\ remote = NoRemote
  /\ outcome = Pending
  /\ exit = ""
  /\ sent = <<>>
  /\ authCalls = 0
  /\ authSent = <<>>
  /\ client = "BaseClient"
  /\ written = None
  /\ firstSignal = FALSE
  /\ cacheTouched = FALSE
  /\ recorded = FALSE
  /\ authReply = NoReply
  /\ log = <<>>
  /\ found = ""
  /\ sinceClear = "none"
  /\ callers = [c \in Callers |-> NotCalling]
  /\ fileBytes = <<>>

\* send: const endpoint = this.endpoint(endpointKey)
BaseClientSendStart(m, k, d) ==
  /\ pc = "idle"
  /\ op' = "send" /\ method' = m /\ key' = k /\ data' = d
  /\ LET e == Endpoint(k)
     IN /\ endpoint' = e.value
        /\ IF e.threw
             THEN pc' = "done" /\ outcome' = e.exc /\ exit' = "endpoint"
             ELSE pc' = "bc_hdr1" /\ outcome' = Pending /\ exit' = ""
  /\ UNCHANGED <<cfg, cache, now, force, headers, response, remote, sent, authCalls,
                 authSent, firstSignal, cacheTouched, recorded, authReply, log, found,
                 sinceClear, apiMethod, input, schemaName, callers, fileBytes, client, written>>

\* request, up to the axios call: buildHeaders awaits this.auth.getToken().
BaseClientBuildHeaders(reply) ==
  /\ pc \in {"bc_hdr1", "bc_hdr2"}
  /\ LET step == AuthClientGetToken(cache, now, FALSE, reply)
     IN /\ AuthEffect(step)
        /\ GetTokenHistory(step, reply)
        /\ IF step.threw
             THEN /\ pc' = "done" /\ outcome' = step.result /\ headers' = headers
                  /\ exit' = "headers"
           ELSE IF endpoint.type # "string"
             THEN /\ pc' = "done" /\ outcome' = TypeError /\ headers' = headers
                  /\ exit' = "headers"
           ELSE /\ pc' = (IF pc = "bc_hdr1" THEN "bc_dispatch1" ELSE "bc_dispatch2")
                /\ outcome' = outcome /\ exit' = exit
                /\ headers' = HeadersFor(cfg, endpoint.str, Get(step.result.token))
  /\ UNCHANGED <<cfg, now, op, method, key, data, force, endpoint, response, remote,
                 sent, firstSignal>>
  /\ UNCHANGED <<apiMethod, input, schemaName, callers, fileBytes, client, written>>

\* request: the axios call; then, back in send, the isTokenExpired test
\* after the first request and unwrap after the last.
BaseClientDispatch(ro) ==
  /\ pc \in {"bc_dispatch1", "bc_dispatch2"}
  /\ sent' = Append(sent, [method |-> method, path |-> endpoint.str,
                           query |-> QueryOf(method, data), body |-> BodyOf(method, data),
                           headers |-> headers, baseUrl |-> GetBaseUrl(cfg),
                           timeout |-> TimeoutMs(cfg)])
  /\ remote' = ro
  /\ firstSignal' = (IF pc = "bc_dispatch1" THEN ExpirySignal(ro) ELSE firstSignal)
  /\ LET r == Request(ro)
     IN IF r.threw
          THEN /\ pc' = "done" /\ outcome' = r.exc /\ response' = response
               /\ exit' = "request"
        ELSE IF pc = "bc_dispatch1" /\ IsTokenExpired(r.response)
          THEN /\ pc' = "bc_clear" /\ outcome' = outcome /\ response' = r.response
               /\ exit' = exit
        ELSE /\ pc' = "done" /\ outcome' = UnwrapStatic(r.response)
             /\ response' = r.response /\ exit' = "unwrap"
  /\ log' = Append(log, "dispatch")
  /\ UNCHANGED <<cfg, cache, now, op, method, key, data, force, endpoint, headers,
                 authCalls, authSent, cacheTouched, recorded, authReply, found, sinceClear>>
  /\ UNCHANGED <<apiMethod, input, schemaName, callers, fileBytes, client, written>>

\* send: await this.auth.clearToken()
BaseClientClearToken ==
  /\ pc = "bc_clear"
  /\ AuthEffect(AuthClientClearToken(cache))
  /\ ClearTokenHistory
  /\ pc' = "bc_refresh"
  /\ UNCHANGED <<cfg, now, op, method, key, data, force, endpoint, headers, response,
                 remote, outcome, exit, sent, firstSignal>>
  /\ UNCHANGED <<apiMethod, input, schemaName, callers, fileBytes, client, written>>

\* send: await this.auth.getToken(true)
BaseClientForceRefresh(reply) ==
  /\ pc = "bc_refresh"
  /\ LET step == AuthClientGetToken(cache, now, TRUE, reply)
     IN /\ AuthEffect(step)
        /\ GetTokenHistory(step, reply)
        /\ IF step.threw
             THEN pc' = "done" /\ outcome' = step.result /\ exit' = "refresh"
             ELSE pc' = "bc_hdr2" /\ outcome' = outcome /\ exit' = exit
  /\ UNCHANGED <<cfg, now, op, method, key, data, force, endpoint, headers, response,
                 remote, sent, firstSignal>>
  /\ UNCHANGED <<apiMethod, input, schemaName, callers, fileBytes, client, written>>

NextBaseClient ==
  \/ \E m \in {"GET", "POST"} : BaseClientSendStart(m, "saveItem", Payload1)
  \/ \E reply \in AuthClientReplies : BaseClientBuildHeaders(reply)
  \/ \E ro \in BaseClientRemoteOutcomes : BaseClientDispatch(ro)
  \/ BaseClientClearToken
  \/ \E reply \in AuthClientReplies : BaseClientForceRefresh(reply)
  \/ Return

SpecBaseClient == InitBaseClient /\ [][NextBaseClient]_vars

\* C32: a call that ends on a response with status 401 raises
\* AuthenticationException, whatever the body of the response holds.
C32_Final401IsAuthenticationError ==
  (op = "send" /\ pc = "done" /\ exit = "unwrap" /\ response.status = 401)
    => outcome.kind = "AuthenticationException"

(***************************************************************************)
(* BaseOClient.send: the authorization calls between the two dispatches.   *)
(***************************************************************************)
\* The authorization calls the running send made after its first dispatch.
FetchesAfterFirstDispatch ==
  Cardinality({ i \in (FirstDispatch + 1)..Len(log) : log[i] = "fetch" })

\* C33: when send dispatches its retry, exactly one authorization call was
\* made since the expiry signal, and the retry carries the token that call
\* issued, not the token the first dispatch carried.
C33_OneAuthorizationCallBeforeRetry ==
  (op = "send" /\ Len(sent) = 2)
    => /\ FetchesAfterFirstDispatch = 1
       /\ sent[2].headers.Authorization = Get(authReply.body.access_token)

\* C34: the retry dispatch of send repeats the first: the same method, path,
\* query, body, base URL and timeout, and the same headers but for
\* Authorization.
C34_RetryRepeatsFirstDispatch ==
  (op = "send" /\ Len(sent) = 2)
    => /\ sent[2].method = sent[1].method
       /\ sent[2].path = sent[1].path
       /\ sent[2].query = sent[1].query
       /\ sent[2].body = sent[1].body
       /\ sent[2].baseUrl = sent[1].baseUrl
       /\ sent[2].timeout = sent[1].timeout
       /\ [sent[2].headers EXCEPT !.Authorization = ""]
            = [sent[1].headers EXCEPT !.Authorization = ""]
\* A POST with a payload is retried with another token.
C34_Witness ==
  /\ op = "send" /\ Len(sent) = 2
  /\ sent[1].method = "POST" /\ sent[1].body # None /\ Len(Get(sent[1].body)) > 0
  /\ sent[2].headers.Authorization # sent[1].headers.Authorization

(***************************************************************************)
(* Several callers in BaseOClient.send at once on one cache file.  Every   *)
(* await inside send, request, getToken and TokenCacheManager is a point   *)
(* where another caller may run; the file is followed character by         *)
(* character, as above.  The remote rejects the token the file holds at    *)
(* the start and accepts the tokens issued later; the authorization        *)
(* endpoint issues a token at every call.                                  *)
(***************************************************************************)
\* The two callers of send.
SendCallers == { 1, 2 }
\* The token of the cache file at the start.
OldToken == Chars("o", 4)
\* Tokens and lifetimes the authorization endpoint issues.
SendConcReplies ==
  { TokenReply("response", 200, TokenBody(Some(t), Some(l), None, None)) :
      t \in { Chars("a", 4), Chars("c", 5) }, l \in { 60, 3600 } }
\* The remote's answers to a request carrying the old token, and to one
\* carrying a token issued later.
RejectOutcomes ==
  { Remote("http", 401, Body("json", EmptyJson)),
    Remote("http", 500, Body("json", Json(None, None, Some("Access Token expired")))) }
AcceptOutcome == Remote("http", 200, Body("json", Json(Some(<<0,0,0>>), None, None)))

\* The position and the locals of one caller of send: phase 1 is the first
\* request, phase 2 the forced refresh, phase 3 the second request; orphan
\* tells that the file this caller's writeFile opened was unlinked since.
SendCaller(at, phase, token, issued, expires, dispatches, fetches, orphan, result) ==
  [pc |-> at, phase |-> phase, token |-> token, issued |-> issued, expires |-> expires,
   dispatches |-> dispatches, fetches |-> fetches, orphan |-> orphan, result |-> result]

InitSendConcurrent ==
  /\ cfg = Config(TRUE)
  /\ fileBytes = OldFile
  /\ cache = FileView(fileBytes)
  /\ callers = [c \in SendCallers |->
                  SendCaller("read", 1, <<>>, None, 0, 0, 0, FALSE, Pending)]
  /\ now = 0
  /\ pc = "idle"
  /\ op = "none"
  /\ method = "GET"
  /\ key = ""
  /\ data = EmptyObject
  /\ apiMethod = ""
  /\ input = EmptyObject
  /\ schemaName = ""
  /\ force = FALSE
  /\ endpoint = Undefined
  /\ headers = NoHeaders
  /\ response = NoResponse
  /\ remote = NoRemote
  /\ outcome = Pending
  /\ exit = ""
  /\ sent = <<>>
  /\ authCalls = 0
  /\ authSent = <<>>
  /\ client = "EtimsOClient"
  /\ written = None
  /\ firstSignal = FALSE
  /\ cacheTouched = FALSE
  /\ recorded = FALSE
  /\ authReply = NoReply
  /\ log = <<>>
  /\ found = ""
  /\ sinceClear = "none"

\* buildHeaders: getToken(), the read of the cache and the freshness test.
SendConcRead(c) ==
  /\ callers[c].pc = "read"
  /\ LET r == FileRead(fileBytes, FALSE).file
         hit == r.kind = "json" /\ CacheIsFresh(r.entry, now)
     IN callers' = [callers EXCEPT ![c].pc = IF hit THEN "dispatch" ELSE "fetch",
                                   ![c].token = IF hit THEN r.entry.access_token ELSE @]
  /\ UNCHANGED <<cache, fileBytes, authCalls, authSent>>
  /\ ConcUnchanged

\* getToken: const tokenData = await this.fetchToken(); the access_token
\* test; const expiresIn = ...
SendConcFetch(c, reply) ==
  /\ callers[c].pc = "fetch"
  /\ LET f == FetchToken(cfg, reply)
     IN /\ authCalls' = authCalls + f.calls
        /\ authSent' = authSent \o (IF f.calls > 0 THEN <<AuthRequest(cfg)>> ELSE <<>>)
        /\ callers' = [callers EXCEPT ![c] =
             IF f.threw
               THEN [@ EXCEPT !.pc = "done", !.result = f.exc, !.fetches = @ + f.calls]
             ELSE IF ~IsSome(f.data.access_token)
               THEN [@ EXCEPT !.pc = "done", !.fetches = @ + f.calls,
                              !.result = ApiException(PlainMsg("Invalid token response from KRA"),
                                                      500, None, None)]
             ELSE [@ EXCEPT !.pc = "open", !.fetches = @ + f.calls,
                            !.issued = f.data.access_token,
                            !.expires = ExpiresAt(now, ParseExpiresIn(f.data.expires_in))]]
  /\ UNCHANGED <<cache, fileBytes>>
  /\ ConcUnchanged

\* getToken: await this.cacheManager.write(...): fs.writeFile opens the file
SendConcOpen(c) ==
  /\ callers[c].pc = "open"
  /\ fileBytes' = OpenTruncate(fileBytes)
  /\ cache' = FileView(fileBytes')
  /\ callers' = [callers EXCEPT ![c].pc = "write", ![c].orphan = FALSE]
  /\ UNCHANGED <<authCalls, authSent>>
  /\ ConcUnchanged

\* fs.writeFile writes its data, to the file it opened; getToken returns
\* tokenData.access_token, to buildHeaders (phases 1 and 3) or to send,
\* which drops it and calls request (phase 2).
SendConcWrite(c) ==
  /\ callers[c].pc = "write"
  /\ fileBytes' = IF callers[c].orphan THEN fileBytes
                  ELSE WriteAt0(fileBytes, Serialize(TokenCache(Get(callers[c].issued),
                                                               callers[c].expires)))
  /\ cache' = FileView(fileBytes')
  /\ callers' = [callers EXCEPT ![c] =
       IF @.phase = 2
         THEN [@ EXCEPT !.pc = "read", !.phase = 3]
         ELSE [@ EXCEPT !.pc = "dispatch", !.token = Get(callers[c].issued)]]
  /\ UNCHANGED <<authCalls, authSent>>
  /\ ConcUnchanged

\* request: the axios call; send: the isTokenExpired test after the first
\* request, unwrap after the last.
SendConcDispatch(c, ro) ==
  /\ callers[c].pc = "dispatch"
  /\ IF callers[c].token = OldToken THEN ro \in RejectOutcomes ELSE ro = AcceptOutcome
  /\ LET r == Request(ro)
     IN callers' = [callers EXCEPT ![c] =
          IF r.threw
            THEN [@ EXCEPT !.pc = "done", !.result = r.exc, !.dispatches = @ + 1]
          ELSE IF @.phase = 1 /\ IsTokenExpired(r.response)
            THEN [@ EXCEPT !.pc = "clear", !.dispatches = @ + 1]
          ELSE [@ EXCEPT !.pc = "done", !.result = Unwrap(r.response),
                         !.dispatches = @ + 1]]
  /\ UNCHANGED <<cache, fileBytes, authCalls, authSent>>
  /\ ConcUnchanged

\* send: await this.auth.clearToken(), then getToken(true), which reads no
\* cache.  The unlink leaves a file another caller has opened without a name.
SendConcClear(c) ==
  /\ callers[c].pc = "clear"
  /\ LET cleared == FileClear(fileBytes)
     IN /\ fileBytes' = cleared.bytes
        /\ callers' = [d \in SendCallers |->
             IF d = c
               THEN IF cleared.threw
                      THEN [callers[d] EXCEPT !.pc = "done", !.result = IoError]
                      ELSE [callers[d] EXCEPT !.pc = "fetch", !.phase = 2]
             ELSE IF callers[d].pc = "write" THEN [callers[d] EXCEPT !.orphan = TRUE]
             ELSE callers[d]]
  /\ cache' = FileView(fileBytes')
  /\ UNCHANGED <<authCalls, authSent>>
  /\ ConcUnchanged

NextSendConcurrent ==
  \/ \E c \in SendCallers : SendConcRead(c)
  \/ \E c \in SendCallers, reply \in SendConcReplies : SendConcFetch(c, reply)
  \/ \E c \in SendCallers : SendConcOpen(c)
  \/ \E c \in SendCallers : SendConcWrite(c)
  \/ \E c \in SendCallers, ro \in RejectOutcomes \cup {AcceptOutcome} : SendConcDispatch(c, ro)
  \/ \E c \in SendCallers : SendConcClear(c)

SpecSendConcurrent == InitSendConcurrent /\ [][NextSendConcurrent]_vars

\* C35: with the remote rejecting the token cached at the start and
\* accepting every token issued later, no caller of send dispatches more
\* than twice and every caller that ends returns the remote's success body.
C35_ConcurrentSendsSucceed ==
  \A c \in SendCallers :
    /\ callers[c].dispatches <= 2
    /\ callers[c].pc = "done" => callers[c].result = ReturnJson(AcceptOutcome.body.json)
\* Both callers were rejected once, raced on the cache and returned, the
\* race costing more authorization calls than there are callers.
C35_Witness ==
  /\ \A c \in SendCallers : callers[c].pc = "done" /\ callers[c].dispatches = 2
  /\ authCalls > Cardinality(SendCallers)

\* C36: a getToken whose authorization call is answered with a body that
\* carries errorCode raises an error that carries that errorCode and the
\* body's errorMessage, and writes nothing to the cache.
C36_ErrorCodeCarried ==
  (pc = "done" /\ op = "getToken" /\ authCalls > 0 /\ IsSome(authReply.body.errorCode))
    => /\ IsError(outcome)
       /\ outcome.errorCode = authReply.body.errorCode
       /\ IsSome(authReply.body.errorMessage)
            => outcome.message.text = authReply.body.errorMessage
       /\ \A i \in 1..Len(log) : log[i] # "write"

\* A getToken step raised: the direct call, buildHeaders' or send's.
GetTokenRaised ==
  /\ PlainGetTokenStep \/ ForcedGetTokenStep
  /\ pc' = "done" /\ outcome'.kind = "ApiException"
\* The authorization call of a getToken step failed, or its answer holds no
\* access_token.
AcquisitionFailed ==
  /\ PlainGetTokenStep \/ ForcedGetTokenStep
  /\ authCalls' = authCalls + 1
  /\ \/ authReply'.kind # "response"
     \/ authReply'.status < 200 \/ authReply'.status >= 300
     \/ ~IsSome(authReply'.body.access_token)

\* C37: a getToken whose authorization call fails, or is answered without
\* access_token, raises, and a getToken that raises leaves the cache file
\* as it was: absent stays absent, an entry is kept as it is.
C37_FailedAcquisitionKeepsCache ==
  [][ /\ AcquisitionFailed => GetTokenRaised
      /\ GetTokenRaised => cache' = cache ]_vars
\* A getToken() found a stale entry, its authorization call failed, and
\* the entry is still there.
C37_Witness ==
  /\ pc = "done" /\ op = "getToken" /\ ~force /\ found = "stale" /\ authCalls = 1
  /\ outcome.kind = "ApiException"
  /\ cache = JsonFile(TokenCache("tokOld", 1))

(***************************************************************************)
(* AuthenticationException.isTokenExpired().                               *)
(***************************************************************************)
\* The i flag of the pattern, on the letters of its two words.
LowerCase(c) ==
  CASE c = "T" -> "t" [] c = "O" -> "o" [] c = "K" -> "k" [] c = "E" -> "e"
    [] c = "N" -> "n" [] c = "X" -> "x" [] c = "P" -> "p" [] c = "I" -> "i"
    [] c = "R" -> "r" [] c = "D" -> "d" [] OTHER -> c
\* word is found in text at position i, letter case ignored.
WordAt(text, word, i) ==
  /\ i + Len(word) - 1 <= Len(text)
  /\ \A k \in 1..Len(word) :
       LowerCase(SubSeq(text, i + k - 1, i + k - 1)) = SubSeq(word, k, k)
\* /token.*expired/i.test(message): "token", then any characters but a line
\* break, then "expired".
TokenExpiredPattern(text) ==
  \E i \in 1..Len(text), j \in 1..Len(text) :
    /\ WordAt(text, "token", i)
    /\ j >= i + Len("token")
    /\ WordAt(text, "expired", j)
    /\ \A k \in (i + Len("token"))..(j - 1) : SubSeq(text, k, k) # "\n"
\* isTokenExpired() of an AuthenticationException e.
ExceptionIsTokenExpired(e) ==
  /\ e.statusCode = 401
  /\ \/ e.errorCode = Some("TOKEN_EXPIRED")
     \/ TokenExpiredPattern(e.message.tag)

\* C38: the AuthenticationException a send raises for a final 401 response
\* answers true to its own isTokenExpired().
C38_Final401IsTokenExpired ==
  (SendDone /\ exit = "unwrap" /\ response.status = 401
     /\ outcome.kind = "AuthenticationException")
    => ExceptionIsTokenExpired(outcome)

(***************************************************************************)
(* EtimsOClient: every endpoint method, called with a payload its schema   *)
(* accepts and with an empty one, on a cache file that holds a fresh       *)
(* token.                                                                  *)
(***************************************************************************)
Audit == << StrProp("regrId", "A", 5), StrProp("regrNm", "A", 5) >>
LastReqPayload == << StrProp("lastReqDt", "2", 14) >>
ItemHead ==
  << NumProp("itemSeq", 1), StrProp("itemCd", "K", 15), StrProp("itemClsCd", "5", 8),
     StrProp("itemNm", "B", 7), Prop("bcd", VNull),
     StrProp("pkgUnitCd", "N", 2), NumProp("pkg", 1), StrProp("qtyUnitCd", "B", 2),
     NumProp("qty", 90), NumProp("prc", 1000), NumProp("splyAmt", 81000),
     NumProp("taxblAmt", 81000), Prop("taxTyCd", VStr(<<"C">>)), NumProp("taxAmt", 0),
     NumProp("totAmt", 81000) >>
Totals ==
  << NumProp("totItemCnt", 1), NumProp("totTaxblAmt", 81000), NumProp("totTaxAmt", 0),
     NumProp("totAmt", 81000) >>
\* For every endpoint method a payload that its schema accepts.
ValidPayloadOf ==
  [ selectInitOsdcInfo |-> InitPayload,
    selectCodeList |-> LastReqPayload,
    selectCustomer |-> << StrProp("custmTin", "P", 11) >>,
    selectBranches |-> LastReqPayload,
    saveBranchCustomer |->
      << StrProp("custNo", "9", 4), StrProp("custTin", "P", 11), StrProp("custNm", "C", 6),
         Prop("useYn", VStr(<<"Y">>)) >> \o Audit,
    saveBranchUser |->
      << StrProp("userId", "u", 4), StrProp("userNm", "U", 6), StrProp("pwd", "x", 8),
         Prop("useYn", VStr(<<"Y">>)) >> \o Audit,
    saveBranchInsurance |->
      << StrProp("isrccCd", "I", 4), StrProp("isrccNm", "N", 6), NumProp("isrcRt", 20),
         Prop("useYn", VStr(<<"Y">>)) >> \o Audit,
    selectItemClasses |-> LastReqPayload,
    selectItems |-> LastReqPayload,
    saveItem |->
      << StrProp("itemCd", "K", 15), StrProp("itemClsCd", "5", 8), StrProp("itemTyCd", "2", 1),
         StrProp("itemNm", "B", 7), Prop("itemStdNm", VNull), StrProp("orgnNatCd", "K", 2),
         StrProp("pkgUnitCd", "N", 2), StrProp("qtyUnitCd", "B", 2),
         Prop("taxTyCd", VStr(<<"C">>)), NumProp("dftPrc", 1000), NumProp("sftyQty", 5),
         Prop("isrcAplcbYn", VStr(<<"N">>)), Prop("useYn", VStr(<<"Y">>)),
         StrProp("modrId", "A", 5), StrProp("modrNm", "A", 5) >> \o Audit,
    saveItemComposition |->
      << StrProp("itemCd", "K", 15), StrProp("cpstItemCd", "K", 15),
         NumProp("cpstQty", 2) >> \o Audit,
    selectImportedItems |-> LastReqPayload,
    updateImportedItem |->
      << StrProp("taskCd", "2", 6), StrProp("dclDe", "2", 8), NumProp("itemSeq", 1),
         StrProp("hsCd", "1", 10), StrProp("itemClsCd", "5", 8), StrProp("itemCd", "K", 15),
         StrProp("imptItemSttsCd", "1", 1), StrProp("modrId", "A", 5),
         StrProp("modrNm", "A", 5) >>,
    selectPurchases |-> LastReqPayload,
    savePurchase |->
      << Prop("spplrTin", VNull), NumProp("invcNo", 1), NumProp("orgInvcNo", 0),
         StrProp("regTyCd", "M", 1), StrProp("pchsTyCd", "N", 1), StrProp("rcptTyCd", "P", 1),
         StrProp("pmtTyCd", "0", 2), StrProp("pchsSttsCd", "0", 2),
         StrProp("cfmDt", "2", 14), StrProp("pchsDt", "2", 8), Prop("wrhsDt", VNull),
         Prop("itemList", VArr(<< VObj(ItemHead \o << NumProp("dcRt", 0), NumProp("dcAmt", 0),
                                                    StrProp("itemExprDt", "2", 8) >>) >>)) >>
        \o Totals \o TaxBreakdown \o Audit,
    saveSalesTransaction |->
      SalePayload(VNum(1), <<>>, <<>>, << SaleItem(<<>>) >>),
    selectStockMovement |-> LastReqPayload,
    saveStockIO |->
      << StrProp("tin", "P", 11), StrProp("bhfId", "0", 2), NumProp("sarNo", 1),
         NumProp("orgSarNo", 0), StrProp("regTyCd", "M", 1), Prop("custTin", VNull),
         StrProp("sarTyCd", "1", 2), StrProp("ocrnDt", "2", 8),
         StrProp("modrId", "A", 5), StrProp("modrNm", "A", 5),
         Prop("itemList", VArr(<< VObj(ItemHead \o << NumProp("totDcAmt", 0),
                                                    Prop("itemExprDt", VNull) >>) >>)) >>
        \o Totals \o Audit,
    saveStockMaster |->
      << StrProp("itemCd", "K", 15), NumProp("rsdQty", 10), StrProp("modrId", "A", 5),
         StrProp("modrNm", "A", 5) >> \o Audit,
    selectNoticeList |-> LastReqPayload ]

EtimsOClientCalls ==
  UNION { { MethodCall(m, ValidPayloadOf[m]), MethodCall(m, EmptyObject) } :
            m \in DOMAIN EtimsOClientMethods }
\* What the authorization endpoint and the remote answer in this specification.
EtimsOClientReplies ==
  { TokenReply("response", 200, TokenBody(Some("tokA"), Some(3600), None, None)),
    TokenReply("network", 0, TokenBody(None, None, None, None)) }
EtimsOClientRemoteOutcomes ==
  { Remote("http", 200, Body("json", Json(Some(<<0,0,0>>), None, None))),
    Remote("http", 200, Body("json", Json(Some(<<9,0,0>>), Some("Invalid item code"), None))),
    Remote("http", 401, Body("json", EmptyJson)),
    Remote("none", 0, Body("empty", EmptyJson)) }

InitEtimsOClient ==
  /\ Init
  /\ cfg = Config(TRUE)
  /\ cache = JsonFile(TokenCache("tokOld", 1))

NextEtimsOClient ==
  \/ \E c \in EtimsOClientCalls : CallEndpoint(c.name, c.data)
  \/ \E reply \in EtimsOClientReplies : BuildHeaders(reply)
  \/ \E ro \in EtimsOClientRemoteOutcomes : Dispatch(ro)
  \/ SendClearToken
  \/ \E reply \in EtimsOClientReplies : SendForceRefresh(reply)
  \/ Return

SpecEtimsOClient == InitEtimsOClient /\ [][NextEtimsOClient]_vars

\* C39: every endpoint method of EtimsOClient names a schema the Validator
\* defines and a key the endpoint table defines: no call of a method ends
\* with 'schema not defined' or 'endpoint not configured', and a call with a
\* payload the schema accepts passes validation and dispatches a request
\* once buildHeaders has its token.
C39_MethodsNameSchemaAndKey ==
  /\ \A m \in DOMAIN EtimsOClientMethods :
       /\ EtimsOClientMethods[m].schema \in DOMAIN schemas
       /\ EtimsOClientMethods[m].key \in DOMAIN endpoints
  /\ (apiMethod # "" /\ pc = "done")
       => /\ outcome # SchemaNotDefined /\ outcome.kind # "TypeError"
          /\ exit # "endpoint"
          /\ input = ValidPayloadOf[apiMethod]
               => /\ exit # "validate"
                  /\ exit # "headers" => Len(sent) >= 1
\* savePurchase, called with a purchase of one item, was dispatched and
\* returned the remote's body.
C39_Witness ==
  /\ apiMethod = "savePurchase" /\ pc = "done" /\ input = ValidPayloadOf.savePurchase
  /\ Len(sent) = 1 /\ sent[1].path = "/insertTrnsPurchase" /\ sent[1].body = Some(input)
  /\ outcome.kind = "return"

\* C40: every endpoint method of EtimsClient names a schema its Validator
\* defines: no call of a method ends with 'Validation schema ... not
\* defined'.
C40_MethodsNameDefinedSchema ==
  (client = "EtimsClient" /\ apiMethod # "" /\ pc = "done") => outcome # SchemaNotDefined

====
